---------------------------- MODULE Spec2Model ----------------------------
(***************************************************************************)
(* A model of go-ratelimiter: the shared store the limiters run on, the    *)
(* three limiters (fixed window, sliding window, token bucket) and the     *)
(* engine Limiter.Check with its access lists and its auto-ban loop.       *)
(*                                                                         *)
(* Time is a single clock `now`, counted in ticks; TicksPerSec ticks make  *)
(* one second.  A handler runs as one step (the store's operations of one  *)
(* call are not interleaved with another call's in these specifications).  *)
(***************************************************************************)
EXTENDS Integers, Sequences, FiniteSets, TLC

VARIABLES
    store,   \* the shared store: [kv, z, h, exp]
    now,     \* the clock, in ticks
    cfg,     \* the parameters of the limiter under test (fixed after Init)
    last,    \* what the last call returned and observed
    hist     \* the calls made so far, oldest first

vars == <<store, now, cfg, last, hist>>

---------------------------------------------------------------------------
(* Bounds of the model *)

TicksPerSec == 3
MaxTime == 6
MaxCalls == 4
MaxLimit == 2
MaxWindow == 3

---------------------------------------------------------------------------
(* Helpers *)

Max(a, b) == IF a >= b THEN a ELSE b
Min(a, b) == IF a <= b THEN a ELSE b

\* f with key k bound to v (k added to the domain when it is new)
Put(f, k, v) == [x \in (DOMAIN f) \cup {k} |-> IF x = k THEN v ELSE f[x]]

\* f without key k
Drop(f, k) == [x \in (DOMAIN f) \ {k} |-> f[x]]

EmptyMap == [x \in {} |-> 0]

\* integer ceiling of a / b, for a >= 0 and b > 0
CeilDiv(a, b) == (a + b - 1) \div b

---------------------------------------------------------------------------
(* The store.  kv: integer keys; z: sorted sets (member -> score);          *)
(* h: hashes (the token bucket's fields); exp: the deadline, in ticks, of   *)
(* every key that has one.  A key lives in exactly one of kv, z, h.         *)
(* ops counts the operations the running call has sent to the store and     *)
(* failAt is the one of them that fails (0: none does).  An operation that  *)
(* fails returns an error and changes nothing; the caller returns on it, so *)
(* no operation after it is sent.                                           *)

EmptyStore ==
    [kv |-> EmptyMap, z |-> EmptyMap, h |-> EmptyMap, exp |-> EmptyMap,
     ops |-> 0, failAt |-> 0]

\* an operation of the running call has returned an error
Failed(s) == s.failAt > 0 /\ s.ops >= s.failAt

\* one operation sent to the store: `effect` is the store it leaves when it
\* succeeds
Attempt(s, effect) ==
    IF Failed(s) THEN s
    ELSE IF s.ops + 1 = s.failAt THEN [s EXCEPT !.ops = @ + 1]
    ELSE [effect EXCEPT !.ops = s.ops + 1]

\* a read sent to the store
Read(s) == Attempt(s, s)

\* the store a call starts on (operation failAt of the call will fail) and
\* the store it leaves behind
Arm(s, failAt) == [s EXCEPT !.ops = 0, !.failAt = failAt]
Settle(s) == [s EXCEPT !.ops = 0, !.failAt = 0]

Exists(s, k) == k \in (DOMAIN s.kv) \cup (DOMAIN s.z) \cup (DOMAIN s.h)

\* Get: a missing key reads as 0
Get(s, k) == IF k \in DOMAIN s.kv THEN s.kv[k] ELSE 0

\* Set: writes the value and clears any deadline the key had
Set(s, k, v) ==
    Attempt(s, [s EXCEPT !.kv = Put(s.kv, k, v), !.exp = Drop(s.exp, k)])

\* the store without key k
Remove(s, k) ==
    [s EXCEPT !.kv = Drop(s.kv, k), !.z = Drop(s.z, k), !.h = Drop(s.h, k),
              !.exp = Drop(s.exp, k)]

\* Del: removes the key
Del(s, k) == Attempt(s, Remove(s, k))

\* IncrBy: adds n (a missing key counts from 0) and keeps the deadline
IncrBy(s, k, n) ==
    LET v == Get(s, k) + n
    IN  [store |-> Attempt(s, [s EXCEPT !.kv = Put(s.kv, k, v)]), val |-> v]

\* Incr: adds one
Incr(s, k) == IncrBy(s, k, 1)

\* the key, if it exists, dies d ticks from t
SetDeadline(s, k, d, t) ==
    IF Exists(s, k) THEN [s EXCEPT !.exp = Put(s.exp, k, t + d)] ELSE s

\* Expire: gives the key its deadline
Expire(s, k, d, t) == Attempt(s, SetDeadline(s, k, d, t))

\* TTL, in whole seconds as the client returns it: -2 for a missing key,
\* -1 for a key without deadline, else the remaining time rounded to the
\* nearest second
TTL(s, k, t) ==
    IF ~Exists(s, k) THEN -2
    ELSE IF k \notin DOMAIN s.exp THEN -1
    ELSE (2 * (s.exp[k] - t) + TicksPerSec) \div (2 * TicksPerSec)

\* the keys whose deadline has passed at time t
Expired(s, t) == {k \in DOMAIN s.exp : s.exp[k] <= t}

PurgeDeadlinesOnly(s, t) ==
    [s EXCEPT !.exp = [x \in (DOMAIN s.exp) \ Expired(s, t) |-> s.exp[x]]]

\* the store at time t: expired keys are gone
Purge(s, t) ==
    LET dead == Expired(s, t)
        keep(f) == [x \in (DOMAIN f) \ dead |-> f[x]]
    IN  [s EXCEPT !.kv = keep(s.kv), !.z = keep(s.z), !.h = keep(s.h),
                  !.exp = keep(s.exp)]

\* time.Now().Unix(): whole seconds
Unix(t) == t \div TicksPerSec

---------------------------------------------------------------------------
(* Fixed window *)

FixedAllowedStrict(count, limit) == count < limit

\* allowed := count <= limit
FixedAllowed(count, limit) == count <= limit

\* remaining := limit - count, not below 0
FixedRemaining(count, limit) == Max(0, limit - count)

FixedWindowAllowRefreshing(s, key, limit, window, t) ==
    LET inc == Incr(s, key)
        s1  == Expire(inc.store, key, window, t)
        ttl == TTL(s1, key, t)
    IN  [store |-> Read(s1),
         ctx   |-> [Allowed    |-> FixedAllowed(inc.val, limit),
                    Limit      |-> limit,
                    Remaining  |-> FixedRemaining(inc.val, limit),
                    Reset      |-> Unix(t) + ttl,
                    RetryAfter |-> ttl]]

FixedWindowAllowAligned(s, key, limit, window, t) ==
    LET inc == Incr(s, key)
        s1  == IF inc.val = 1 THEN Expire(inc.store, key, window - (t % window), t)
               ELSE inc.store
        ttl == TTL(s1, key, t)
    IN  [store |-> Read(s1),
         ctx   |-> [Allowed    |-> FixedAllowed(inc.val, limit),
                    Limit      |-> limit,
                    Remaining  |-> FixedRemaining(inc.val, limit),
                    Reset      |-> Unix(t) + ttl,
                    RetryAfter |-> ttl]]

\* FixedWindowLimiter.Allow: the store after the call and the Context returned
FixedWindowAllow(s, key, limit, window, t) ==
    LET inc == Incr(s, key)
        s1  == IF inc.val = 1 THEN Expire(inc.store, key, window, t) ELSE inc.store
        ttl == TTL(s1, key, t)
    IN  [store |-> Read(s1),
         ctx   |-> [Allowed    |-> FixedAllowed(inc.val, limit),
                    Limit      |-> limit,
                    Remaining  |-> FixedRemaining(inc.val, limit),
                    Reset      |-> Unix(t) + ttl,
                    RetryAfter |-> ttl]]

---------------------------------------------------------------------------
(* Specification SpecFW: calls of FixedWindowLimiter.Allow on one key, with *)
(* a limit and a window chosen at the start, while time passes.             *)

FWKey == "fw"

NoCall == [op |-> "none"]

InitFW ==
    /\ store = EmptyStore
    /\ now = 0
    /\ cfg \in [limit : 1..MaxLimit, window : 1..MaxWindow]
    /\ last = NoCall
    /\ hist = <<>>

\* one call of Allow at the current time
FWCall ==
    /\ Len(hist) < MaxCalls
    /\ LET r == FixedWindowAllow(store, FWKey, cfg.limit, cfg.window, now)
       IN  /\ store' = Settle(r.store)
           /\ last' = [op |-> "fixed", ctx |-> r.ctx]
           /\ hist' = Append(hist, [t |-> now, allowed |-> r.ctx.Allowed,
                                    fresh |-> ~Exists(store, FWKey)])
    /\ UNCHANGED <<now, cfg>>

\* the clock advances by one tick; keys whose deadline is reached are gone
Tick ==
    /\ now < MaxTime
    /\ now' = now + 1
    /\ store' = Purge(store, now + 1)
    /\ UNCHANGED <<cfg, last, hist>>

NextFW == FWCall \/ Tick

SpecFW == InitFW /\ [][NextFW]_vars

---------------------------------------------------------------------------
(* C1 *)

\* the index of the call that opened the window call i falls in
WindowOpener(i) ==
    CHOOSE j \in 1..i :
        /\ hist[j].fresh
        /\ \A m \in (j+1)..i : ~hist[m].fresh

\* C1: counting the calls on a key from the call that found it absent, and
\* until its TTL expires, exactly the first `limit` calls are allowed and
\* every later one is denied.
C1_FixedWindowExactlyLimit ==
    \A i \in 1..Len(hist) :
        hist[i].allowed <=> (i - WindowOpener(i) + 1 <= cfg.limit)

\* a window that holds limit + 1 calls, the last of them denied
C1_Witness ==
    /\ Len(hist) > cfg.limit
    /\ hist[cfg.limit + 1].allowed = FALSE
    /\ WindowOpener(cfg.limit + 1) = 1

---------------------------------------------------------------------------
(* C23, C24 *)

\* a step of SpecFW in which Allow was called
FWCallStep == Len(hist') = Len(hist) + 1

\* C23: the call that finds no counter (its count is 1) sets the expiry of
\* the key to the window; every later call of the window, admitted or
\* denied, leaves the instant of expiry as it is
C23_TTLSetOncePerWindow ==
    [][ FWCallStep
          => IF ~Exists(store, FWKey)
             THEN store'.kv[FWKey] = 1 /\ store'.exp[FWKey] = now + cfg.window
             ELSE /\ store'.kv[FWKey] > 1
                  /\ FWKey \in DOMAIN store'.exp
                  /\ store'.exp[FWKey] = store.exp[FWKey]
      ]_vars

\* a call was denied later than its window was opened, and the window
\* still ends when its first call said
C23_Witness ==
    /\ Len(hist) > 1
    /\ ~hist[Len(hist)].allowed
    /\ hist[Len(hist)].t > hist[WindowOpener(Len(hist))].t
    /\ FWKey \in DOMAIN store.exp
    /\ store.exp[FWKey] = hist[WindowOpener(Len(hist))].t + cfg.window

\* C24: once the window of the latest opener has run out, the next call
\* counts 1, is admitted, returns remaining = limit - 1 and opens a window
\* of full length, whatever happened in the window before
C24_RollOver ==
    [][ (FWCallStep /\ Len(hist) > 0
           /\ hist[WindowOpener(Len(hist))].t + cfg.window <= now)
          => /\ store'.kv[FWKey] = 1
             /\ last'.ctx.Allowed
             /\ last'.ctx.Remaining = cfg.limit - 1
             /\ store'.exp[FWKey] = now + cfg.window
      ]_vars

\* a window in which a call was denied ran out, and the next call was
\* admitted as the first of a new window
C24_Witness ==
    /\ Len(hist) > 2
    /\ \E i \in 1..(Len(hist) - 1) : ~hist[i].allowed
    /\ hist[Len(hist)].fresh
    /\ hist[Len(hist)].allowed
    /\ last.ctx.Remaining = cfg.limit - 1

---------------------------------------------------------------------------
(* C18 *)

\* C18: a denied call of FixedWindowLimiter.Allow returns a positive
\* RetryAfter and a Reset after the second the call was made in, whatever
\* is left of the window (stated for windows of whole seconds, the ones
\* the store's Expire takes as they are)
C18_FixedDenyHints ==
    (last.op = "fixed" /\ ~last.ctx.Allowed /\ cfg.window % TicksPerSec = 0)
        => /\ last.ctx.RetryAfter > 0
           /\ last.ctx.Reset > Unix(hist[Len(hist)].t)

---------------------------------------------------------------------------
(* Specification SpecFWC: calls of FixedWindowLimiter.Allow on one key that
   run concurrently. Each process makes one call; a step of a process is one
   store operation of the call (Incr, Expire, TTL), which the store executes
   atomically, and the steps of the processes interleave freely. `last` is
   the table of the processes, `hist` counts the incarnations of the key. *)

MaxProcs == 3

Procs == 1..MaxProcs

IncrStepUnserialized(procs, s, p, key) ==
    IF procs[p].count = 0
    THEN [procs |-> [procs EXCEPT ![p].count = Get(s, key) + 1], store |-> s]
    ELSE [procs |-> [procs EXCEPT ![p].pc = IF procs[p].count = 1 THEN "expire" ELSE "ttl"],
          store |-> Set(s, key, procs[p].count)]

\* count, err := l.store.Incr(key): the call of process p has its count
IncrStep(procs, s, p, key) ==
    [procs |-> [procs EXCEPT ![p].count = Incr(s, key).val,
                             ![p].pc = IF Incr(s, key).val = 1 THEN "expire" ELSE "ttl"],
     store |-> Incr(s, key).store]

\* the Context of the call of process p, from its count and the TTL it read
FixedContext(count, ttl, limit, t) ==
    [Allowed    |-> FixedAllowed(count, limit),
     Limit      |-> limit,
     Remaining  |-> FixedRemaining(count, limit),
     Reset      |-> Unix(t) + ttl,
     RetryAfter |-> ttl]

InitFWC ==
    /\ store = EmptyStore
    /\ now = 0
    /\ cfg \in [limit : 1..MaxLimit, window : 1..MaxWindow]
    /\ last = [p \in Procs |-> [pc |-> "incr", count |-> 0, epoch |-> 0, ctx |-> NoCall]]
    /\ hist = 0

\* process p sends Incr
FWCIncr(p) ==
    /\ last[p].pc = "incr"
    /\ store' = Settle(IncrStep(last, store, p, FWKey).store)
    /\ last' = [IncrStep(last, store, p, FWKey).procs EXCEPT ![p].epoch = hist]
    /\ UNCHANGED <<now, cfg, hist>>

\* process p, whose count is 1, sends Expire
FWCExpire(p) ==
    /\ last[p].pc = "expire"
    /\ store' = Settle(Expire(store, FWKey, cfg.window, now))
    /\ last' = [last EXCEPT ![p].pc = "ttl"]
    /\ UNCHANGED <<now, cfg, hist>>

\* process p sends TTL and returns its Context
FWCTTL(p) ==
    /\ last[p].pc = "ttl"
    /\ store' = Settle(Read(store))
    /\ last' = [last EXCEPT ![p].pc = "done",
                            ![p].ctx = FixedContext(last[p].count, TTL(store, FWKey, now),
                                                    cfg.limit, now)]
    /\ UNCHANGED <<now, cfg, hist>>

\* the clock advances by one tick; when the key reaches its deadline its
\* window is over and the next Incr opens another
FWCTick ==
    /\ now < MaxTime
    /\ now' = now + 1
    /\ store' = Purge(store, now + 1)
    /\ hist' = IF FWKey \in Expired(store, now + 1) THEN hist + 1 ELSE hist
    /\ UNCHANGED <<cfg, last>>

NextFWC ==
    \/ \E p \in Procs : FWCIncr(p)
    \/ \E p \in Procs : FWCExpire(p)
    \/ \E p \in Procs : FWCTTL(p)
    \/ FWCTick

SpecFWC == InitFWC /\ [][NextFWC]_vars

---------------------------------------------------------------------------
(* C14 *)

\* the calls that have sent their Incr in incarnation e of the key
CountedIn(e) == {p \in Procs : last[p].pc # "incr" /\ last[p].epoch = e}

\* C14: of the N concurrent calls that have counted themselves in one
\* window of the key, exactly min(N, L) are admitted - their counts are
\* 1..N whatever the interleaving of the store operations - and each call
\* that has returned carries the decision of its count
C14_FixedWindowSerialized ==
    /\ \A e \in 0..hist :
          /\ {last[p].count : p \in CountedIn(e)} = 1..Cardinality(CountedIn(e))
          /\ Cardinality({p \in CountedIn(e) : FixedAllowed(last[p].count, cfg.limit)})
               = Min(Cardinality(CountedIn(e)), cfg.limit)
    /\ \A p \in Procs :
          last[p].pc = "done" =>
              last[p].ctx.Allowed = FixedAllowed(last[p].count, cfg.limit)

\* all the processes have returned, their calls fell in the same window
\* and overlapped (one read the TTL before the opener of the window had
\* sent its Expire), and one of them was denied
C14_Witness ==
    /\ \A p \in Procs : last[p].pc = "done" /\ last[p].epoch = 0
    /\ \E p \in Procs : last[p].ctx.RetryAfter = -1
    /\ \E p \in Procs : ~last[p].ctx.Allowed

---------------------------------------------------------------------------
(* Sorted sets of the store: z[k] maps each member to its score *)

ZSetOf(s, k) == IF k \in DOMAIN s.z THEN s.z[k] ELSE EmptyMap

\* ZAdd: the member gets the score; a member already there is overwritten
ZAdd(s, k, score, member) ==
    Attempt(s, [s EXCEPT !.z = Put(s.z, k, Put(ZSetOf(s, k), member, score))])

\* ZRemRangeByScore: removes the members with lo <= score <= hi; a set left
\* empty is removed with its key
ZRemRangeByScore(s, k, lo, hi) ==
    LET old  == ZSetOf(s, k)
        keep == {m \in DOMAIN old : ~(lo <= old[m] /\ old[m] <= hi)}
    IN  Attempt(s, IF k \notin DOMAIN s.z THEN s
                   ELSE IF keep = {} THEN Remove(s, k)
                   ELSE [s EXCEPT !.z = Put(s.z, k, [m \in keep |-> old[m]])])

\* ZCount: the number of members with lo <= score <= hi
ZCount(s, k, lo, hi) ==
    LET zs == ZSetOf(s, k)
    IN  Cardinality({m \in DOMAIN zs : lo <= zs[m] /\ zs[m] <= hi})

---------------------------------------------------------------------------
(* Sliding window *)

\* float64(n) for an int64 n beyond 2^53: the nearest multiple of the
\* spacing ulp, a tie going to the even multiple
Float64(n, ulp) ==
    LET q == n \div ulp
        r == n % ulp
    IN  IF 2 * r < ulp THEN q * ulp
        ELSE IF 2 * r > ulp THEN (q + 1) * ulp
        ELSE IF q % 2 = 0 THEN q * ulp ELSE (q + 1) * ulp

SlidingAllowedUpTo(count, limit) == count <= limit

\* allowed := count < limit
SlidingAllowed(count, limit) == count < limit

SlidingWindowAllowLoggingAll(s, key, limit, window, t, ulp) ==
    LET windowStart == t - window
        s1       == ZRemRangeByScore(s, key, 0, Float64(windowStart, ulp))
        count    == ZCount(s1, key, Float64(windowStart, ulp), Float64(t, ulp) * 2)
        allowed  == SlidingAllowed(count, limit)
        s2       == ZAdd(Read(s1), key, Float64(t, ulp), ToString(t))
        s3       == Expire(s2, key, window * 2, t)
    IN  [store |-> s3,
         ctx   |-> [Allowed    |-> allowed,
                    Limit      |-> limit,
                    Remaining  |-> Max(0, limit - (count + 1)),
                    Reset      |-> Unix(t + window),
                    RetryAfter |-> window \div TicksPerSec]]

\* SlidingWindowLimiter.Allow at clock reading t (the nanosecond timestamp,
\* in clock units): the store after the call and the Context returned
SlidingWindowAllow(s, key, limit, window, t, ulp) ==
    LET windowStart == t - window
        score    == Float64(t, ulp)
        member   == ToString(t)
        s1       == ZRemRangeByScore(s, key, 0, Float64(windowStart, ulp))
        count    == ZCount(s1, key, Float64(windowStart, ulp), Float64(t, ulp) * 2)
        allowed  == SlidingAllowed(count, limit)
        s2       == IF allowed THEN ZAdd(Read(s1), key, score, member) ELSE Read(s1)
        count2   == IF allowed THEN count + 1 ELSE count
        s3       == Expire(s2, key, window * 2, t)
    IN  [store |-> s3,
         ctx   |-> [Allowed    |-> allowed,
                    Limit      |-> limit,
                    Remaining  |-> Max(0, limit - count2),
                    Reset      |-> Unix(t + window),
                    RetryAfter |-> window \div TicksPerSec]]

---------------------------------------------------------------------------
(* Specification SpecSW: calls of SlidingWindowLimiter.Allow on one key.    *)
(* Here one tick is one unit of the nanosecond clock, and float64 values    *)
(* of that clock are FloatUlp units apart (256 ns for today's epoch).  A    *)
(* window is longer than that spacing, as every real window is.             *)

FloatUlp == 2

SWKey == "sw"

SWWindows == (FloatUlp + 1)..(FloatUlp + MaxWindow)

InitSW ==
    /\ store = EmptyStore
    /\ now = 0
    /\ cfg \in [limit : 1..MaxLimit, window : SWWindows, ulp : {FloatUlp}]
    /\ last = NoCall
    /\ hist = <<>>

\* one call of Allow; the clock may or may not have moved since the last one
SWCall ==
    /\ Len(hist) < MaxCalls
    /\ LET r == SlidingWindowAllow(store, SWKey, cfg.limit, cfg.window, now, cfg.ulp)
       IN  /\ store' = Settle(r.store)
           /\ last' = [op |-> "sliding", ctx |-> r.ctx]
           /\ hist' = Append(hist, [t |-> now, allowed |-> r.ctx.Allowed])
    /\ UNCHANGED <<now, cfg>>

NextSW == SWCall \/ Tick

SpecSW == InitSW /\ [][NextSW]_vars

---------------------------------------------------------------------------
(* C2 *)

\* the calls admitted with a timestamp in (t - w, t]
AdmittedIn(t, w) ==
    {i \in 1..Len(hist) : hist[i].allowed /\ t - w < hist[i].t /\ hist[i].t <= t}

\* C2: at every time t, at most `limit` admitted calls have a timestamp in
\* (t - window, t].
C2_SlidingAtMostLimit ==
    \A t \in 0..MaxTime : Cardinality(AdmittedIn(t, cfg.window)) <= cfg.limit

---------------------------------------------------------------------------
(* C25 *)

\* a step of SpecSW in which Allow was called
SWCallStep == Len(hist') = Len(hist) + 1

\* the members of the key's log whose score lies in (lo, hi]
ScoresWithin(s, lo, hi) ==
    {m \in DOMAIN ZSetOf(s, SWKey) :
        lo < ZSetOf(s, SWKey)[m] /\ ZSetOf(s, SWKey)[m] <= hi}

\* C25: a call at time now is admitted exactly when fewer than `limit`
\* logged members have a score in (now - window, now]; a member whose score
\* is now - window, or any other score outside that interval, does not count
\* (stated for calls made when the clock is past its first window)
C25_SlidingAdmissionRule ==
    [][ (SWCallStep /\ now >= cfg.window)
          => (last'.ctx.Allowed
                <=> Cardinality(ScoresWithin(store, now - cfg.window, now)) < cfg.limit)
      ]_vars

---------------------------------------------------------------------------
(* C26 *)

\* C26: a denied call adds no member to the log - the members after the
\* call are members from before it, with their scores - and every call,
\* admitted or denied, leaves the key with a TTL of 2 * window
C26_DeniesNotLogged ==
    [][ SWCallStep
          => /\ ~last'.ctx.Allowed
                  => \A m \in DOMAIN ZSetOf(store', SWKey) :
                        /\ m \in DOMAIN ZSetOf(store, SWKey)
                        /\ ZSetOf(store', SWKey)[m] = ZSetOf(store, SWKey)[m]
             /\ SWKey \in DOMAIN store'.exp
             /\ store'.exp[SWKey] = now + 2 * cfg.window
      ]_vars

\* a call was denied at a time of its own: the log has no member of that
\* time, and the key lives 2 * window from the call
C26_Witness ==
    /\ last.op = "sliding"
    /\ ~last.ctx.Allowed
    /\ ToString(hist[Len(hist)].t) \notin DOMAIN ZSetOf(store, SWKey)
    /\ store.exp[SWKey] = hist[Len(hist)].t + 2 * cfg.window

---------------------------------------------------------------------------
(* Specification SpecSWC: calls of SlidingWindowLimiter.Allow on one key that
   run concurrently. Each process makes one call; it reads the clock, then
   sends ZRemRangeByScore, ZCount, ZAdd (when its count is below the limit)
   and Expire, each executed atomically by the store, and the steps of the
   processes interleave freely. No two calls read the same clock value and
   float64 represents every clock value exactly, so that what is observed is
   due to the interleaving alone. `last` is the table of the processes,
   `hist` the set of the admitted calls with their timestamps. *)

ExactFloat == 1

InitSWC ==
    /\ store = EmptyStore
    /\ now = 0
    /\ cfg \in [limit : 1..MaxLimit, window : SWWindows, ulp : {ExactFloat}]
    /\ last = [p \in Procs |-> [pc |-> "now", t |-> 0, count |-> 0, ctx |-> NoCall]]
    /\ hist = {}

\* now := time.Now(), a reading no other call has
SWCNow(p) ==
    /\ last[p].pc = "now"
    /\ \A q \in Procs : last[q].pc # "now" => last[q].t # now
    /\ last' = [last EXCEPT ![p].pc = "evict", ![p].t = now]
    /\ UNCHANGED <<store, now, cfg, hist>>

\* process p sends ZRemRangeByScore
SWCEvict(p) ==
    /\ last[p].pc = "evict"
    /\ store' = Settle(ZRemRangeByScore(store, SWKey, 0,
                                        Float64(last[p].t - cfg.window, cfg.ulp)))
    /\ last' = [last EXCEPT ![p].pc = "count"]
    /\ UNCHANGED <<now, cfg, hist>>

\* process p sends ZCount
SWCCount(p) ==
    /\ last[p].pc = "count"
    /\ store' = Settle(Read(store))
    /\ last' = [last EXCEPT
                  ![p].count = ZCount(store, SWKey,
                                      Float64(last[p].t - cfg.window, cfg.ulp),
                                      Float64(last[p].t, cfg.ulp) * 2),
                  ![p].pc = IF SlidingAllowed(ZCount(store, SWKey,
                                      Float64(last[p].t - cfg.window, cfg.ulp),
                                      Float64(last[p].t, cfg.ulp) * 2), cfg.limit)
                            THEN "add" ELSE "expire"]
    /\ UNCHANGED <<now, cfg, hist>>

\* process p, whose count is below the limit, sends ZAdd: it is admitted
SWCAdd(p) ==
    /\ last[p].pc = "add"
    /\ store' = Settle(ZAdd(store, SWKey, Float64(last[p].t, cfg.ulp),
                            ToString(last[p].t)))
    /\ last' = [last EXCEPT ![p].pc = "expire", ![p].count = @ + 1]
    /\ hist' = hist \cup {[p |-> p, t |-> last[p].t]}
    /\ UNCHANGED <<now, cfg>>

\* process p sends Expire and returns its Context
SWCExpire(p) ==
    /\ last[p].pc = "expire"
    /\ store' = Settle(Expire(store, SWKey, cfg.window * 2, now))
    /\ last' = [last EXCEPT
                  ![p].pc = "done",
                  ![p].ctx = [Allowed    |-> [p |-> p, t |-> last[p].t] \in hist,
                              Limit      |-> cfg.limit,
                              Remaining  |-> Max(0, cfg.limit - last[p].count),
                              Reset      |-> Unix(last[p].t + cfg.window),
                              RetryAfter |-> cfg.window \div TicksPerSec]]
    /\ UNCHANGED <<now, cfg, hist>>

\* the clock advances by one unit; keys whose deadline is reached are gone
SWCTick ==
    /\ now < MaxTime
    /\ now' = now + 1
    /\ store' = Purge(store, now + 1)
    /\ UNCHANGED <<cfg, last, hist>>

NextSWC ==
    \/ \E p \in Procs : SWCNow(p)
    \/ \E p \in Procs : SWCEvict(p)
    \/ \E p \in Procs : SWCCount(p)
    \/ \E p \in Procs : SWCAdd(p)
    \/ \E p \in Procs : SWCExpire(p)
    \/ SWCTick

SpecSWC == InitSWC /\ [][NextSWC]_vars

---------------------------------------------------------------------------
(* C15 *)

\* the concurrent calls admitted with a timestamp in (t - w, t]
AdmittedConcurrentlyIn(t, w) == {a \in hist : t - w < a.t /\ a.t <= t}

\* C15: whatever the interleaving of the evict, count and add steps of
\* concurrent calls, at every time t at most `limit` admitted calls have a
\* timestamp in (t - window, t]
C15_SlidingSerialized ==
    \A t \in 0..MaxTime :
        Cardinality(AdmittedConcurrentlyIn(t, cfg.window)) <= cfg.limit

---------------------------------------------------------------------------
(* Token bucket.  A rate is a rational rate.num / rate.den tokens per       *)
(* second; a token count is kept as the integer tokens * rate.den, so that  *)
(* the script's arithmetic is exact.                                        *)

MaxCap == 2

BucketTTLSlack == 60

Rates == {[num |-> 1, den |-> 2], [num |-> 1, den |-> 1], [num |-> 2, den |-> 1]}

RefillUncapped(tokens, delta, capacity, rate) == tokens + delta * rate.num

\* new_tokens = math.min(capacity, tokens + delta * rate)
Refill(tokens, delta, capacity, rate) ==
    Min(capacity * rate.den, tokens + delta * rate.num)

TokenBucketScriptDroppingRefill(s, key, capacity, rate, sec, requested, t) ==
    LET have       == key \in DOMAIN s.h
        last_time  == IF have THEN s.h[key].last_time ELSE sec
        tokens     == IF have THEN s.h[key].tokens ELSE capacity * rate.den
        delta      == Max(0, sec - last_time)
        new_tokens == Refill(tokens, delta, capacity, rate)
        allowed    == new_tokens >= requested * rate.den
        remaining  == IF allowed THEN new_tokens - requested * rate.den ELSE tokens
        s1 == [s EXCEPT !.h = Put(s.h, key, [tokens |-> remaining, last_time |-> sec])]
        s2 == SetDeadline(s1, key,
                     (CeilDiv(capacity * rate.den, rate.num) + BucketTTLSlack) * TicksPerSec, t)
    IN  [store |-> Attempt(s, s2),
         reply |-> <<IF allowed THEN 1 ELSE 0, remaining \div rate.den, capacity>>]

\* the Lua script run by Eval, as one step of the store: the store after it
\* and the reply {allowed, remaining, capacity}, remaining cut to an integer
TokenBucketScript(s, key, capacity, rate, sec, requested, t) ==
    LET have       == key \in DOMAIN s.h
        last_time  == IF have THEN s.h[key].last_time ELSE sec
        tokens     == IF have THEN s.h[key].tokens ELSE capacity * rate.den
        delta      == Max(0, sec - last_time)
        new_tokens == Refill(tokens, delta, capacity, rate)
        allowed    == new_tokens >= requested * rate.den
        remaining  == IF allowed THEN new_tokens - requested * rate.den ELSE new_tokens
        s1 == [s EXCEPT !.h = Put(s.h, key, [tokens |-> remaining, last_time |-> sec])]
        s2 == SetDeadline(s1, key,
                     (CeilDiv(capacity * rate.den, rate.num) + BucketTTLSlack) * TicksPerSec, t)
    IN  [store |-> Attempt(s, s2),
         reply |-> <<IF allowed THEN 1 ELSE 0, remaining \div rate.den, capacity>>]

\* retryAfter of a denied call: int64(float64(tokensNeeded) / rate), at least 1
TokenRetryAfter(allowed, remaining, rate) ==
    IF allowed \/ 1 - remaining <= 0 THEN 0
    ELSE Max(1, ((1 - remaining) * rate.den) \div rate.num)

\* TokenBucketLimiter.Allow at clock reading t
TokenBucketAllow(s, key, capacity, rate, t) ==
    LET sec == Unix(t)
        r   == TokenBucketScript(s, key, capacity, rate, sec, 1, t)
        allowed   == r.reply[1] = 1
        remaining == r.reply[2]
    IN  [store |-> r.store,
         ctx   |-> [Allowed    |-> allowed,
                    Limit      |-> r.reply[3],
                    Remaining  |-> remaining,
                    Reset      |-> sec + (capacity * rate.den) \div rate.num,
                    RetryAfter |-> TokenRetryAfter(allowed, remaining, rate)]]

---------------------------------------------------------------------------
(* Specification SpecTB: calls of TokenBucketLimiter.Allow on one key *)

TBKey == "tb"

InitTB ==
    /\ store = EmptyStore
    /\ now = 0
    /\ cfg \in [capacity : 1..MaxCap, rate : Rates]
    /\ last = NoCall
    /\ hist = <<>>

TBCall ==
    /\ Len(hist) < MaxCalls
    /\ LET r == TokenBucketAllow(store, TBKey, cfg.capacity, cfg.rate, now)
       IN  /\ store' = Settle(r.store)
           /\ last' = [op |-> "bucket", ctx |-> r.ctx]
           /\ hist' = Append(hist, [t |-> now, sec |-> Unix(now),
                                    allowed |-> r.ctx.Allowed])
    /\ UNCHANGED <<now, cfg>>

NextTB == TBCall \/ Tick

SpecTB == InitTB /\ [][NextTB]_vars

---------------------------------------------------------------------------
(* C3 *)

\* the stored tokens value is within [0, capacity]
TokensInRange ==
    TBKey \in DOMAIN store.h =>
        /\ store.h[TBKey].tokens >= 0
        /\ store.h[TBKey].tokens <= cfg.capacity * cfg.rate.den

\* the calls admitted at a clock time in [a, b] (ticks)
AdmittedBetween(a, b) ==
    {i \in 1..Len(hist) : hist[i].allowed /\ a <= hist[i].t /\ hist[i].t <= b}

\* the calls admitted with a whole-second timestamp in [a, b]
AdmittedBetweenSec(a, b) ==
    {i \in 1..Len(hist) : hist[i].allowed /\ a <= hist[i].sec /\ hist[i].sec <= b}

---------------------------------------------------------------------------
(* C27 *)

\* a step of SpecTB in which Allow was called
TBCallStep == Len(hist') = Len(hist) + 1

\* (tokens, last) as the call reads them: (capacity, now) for a missing
\* key; tokens are counted times rate.den
TokensRead ==
    IF TBKey \in DOMAIN store.h THEN store.h[TBKey].tokens
    ELSE cfg.capacity * cfg.rate.den

LastRead ==
    IF TBKey \in DOMAIN store.h THEN store.h[TBKey].last_time ELSE Unix(now)

\* tokens' = min(capacity, tokens + max(0, now - last) * rate)
TokensRefilled ==
    Min(cfg.capacity * cfg.rate.den,
        TokensRead + Max(0, Unix(now) - LastRead) * cfg.rate.num)

\* the calls up to call i were made in the second of the first call
SameInstant(i) == \A j \in 1..i : hist[j].sec = hist[1].sec

\* a call admits exactly when tokens' >= 1 and stores last = now with
\* tokens' - 1 after an admission and tokens' after a deny
TokenBucketStep ==
    [][ TBCallStep
          => /\ last'.ctx.Allowed <=> TokensRefilled >= cfg.rate.den
             /\ store'.h[TBKey].last_time = Unix(now)
             /\ store'.h[TBKey].tokens
                   = IF TokensRefilled >= cfg.rate.den
                     THEN TokensRefilled - cfg.rate.den ELSE TokensRefilled
      ]_vars

\* of the calls made on a fresh key in one instant exactly the first
\* `capacity` are admitted
FreshKeyAdmitsCapacity ==
    \A i \in 1..Len(hist) : SameInstant(i) => (hist[i].allowed <=> i <= cfg.capacity)

\* C27: every call reads (tokens, last), (capacity, now) for a missing key,
\* refills to tokens' = min(capacity, tokens + max(0, now - last) * rate),
\* admits exactly when tokens' >= 1 and stores last = now with tokens' - 1
\* after an admission and tokens' after a deny; so a fresh key admits
\* exactly `capacity` calls made in one instant, and a deny takes no token
\* and loses no refill
C27_TokenBucketStep == TokenBucketStep /\ []FreshKeyAdmitsCapacity

\* a call was denied and the bucket keeps the part of a token that had
\* accrued by then
C27_Witness ==
    /\ last.op = "bucket"
    /\ ~last.ctx.Allowed
    /\ store.h[TBKey].tokens > 0
    /\ store.h[TBKey].last_time = hist[Len(hist)].sec
    /\ Len(hist) > cfg.capacity

---------------------------------------------------------------------------
(* C19 *)

\* the tokens the bucket holds after the latest call, times rate.den
TokensLeft == store.h[TBKey].tokens

\* C19: a denied token-bucket call returns
\* RetryAfter = max(1, ceil((1 - tokens'') / rate)), which is at least 1,
\* and Remaining = floor(tokens''), tokens'' being the tokens the bucket
\* holds after the call
C19_TokenDenyHint ==
    (last.op = "bucket" /\ ~last.ctx.Allowed)
        => /\ last.ctx.RetryAfter
                 = Max(1, CeilDiv(cfg.rate.den - TokensLeft, cfg.rate.num))
           /\ last.ctx.RetryAfter >= 1
           /\ last.ctx.Remaining = TokensLeft \div cfg.rate.den

---------------------------------------------------------------------------
(* The engine.  A Limiter l is the record NewFromConfig builds; a path or a *)
(* pattern is a sequence of characters; a request is                        *)
(* [path, method, ip, userID].                                              *)

AlgorithmFixedWindow == "fixed_window"
AlgorithmSlidingWindow == "sliding_window"
AlgorithmTokenBucket == "token_bucket"

LimitByIP == "ip"
LimitByUser == "user"
LimitByPath == "path"
LimitByGlobal == "global"

NoRule == [Name |-> "none"]

\* no Result: what Check returns next to an error
NilResult == [Nil |-> TRUE]

\* the Result of a verdict reached without a rule: every field but Allowed is zero
PlainResult(allowed) ==
    [Allowed |-> allowed, Limit |-> 0, Remaining |-> 0, Reset |-> 0, RetryAfter |-> 0]

RECURSIVE Str(_)
\* the string of a sequence of characters
Str(cs) == IF cs = <<>> THEN "" ELSE cs[1] \o Str(Tail(cs))

RECURSIVE Join(_)
\* strings.Join(parts, ":")
Join(parts) ==
    IF parts = <<>> THEN ""
    ELSE IF Len(parts) = 1 THEN parts[1]
    ELSE parts[1] \o ":" \o Join(Tail(parts))

buildKeyPerRule(rule, path, ip, userID) ==
    LET head == IF rule.Name # "" THEN <<rule.Name>> ELSE <<Str(path)>>
        dim  == CASE rule.By = LimitByIP     -> <<"ip">>
                  [] rule.By = LimitByUser   -> IF userID # "" THEN <<"user", userID>>
                                                ELSE <<"ip", ip>>
                  [] rule.By = LimitByPath   -> <<"path", Str(path)>>
                  [] rule.By = LimitByGlobal -> <<"global">>
                  [] OTHER                   -> <<>>
    IN  Join(head \o dim)

buildKeyWithoutFallback(rule, path, ip, userID) ==
    LET head == IF rule.Name # "" THEN <<rule.Name>> ELSE <<Str(path)>>
        dim  == CASE rule.By = LimitByIP     -> <<"ip", ip>>
                  [] rule.By = LimitByUser   -> <<"user", userID>>
                  [] rule.By = LimitByPath   -> <<"path", Str(path)>>
                  [] rule.By = LimitByGlobal -> <<"global">>
                  [] OTHER                   -> <<>>
    IN  Join(head \o dim)

\* buildKey: the rule's name (or the path) and the dimension's parts
buildKey(rule, path, ip, userID) ==
    LET head == IF rule.Name # "" THEN <<rule.Name>> ELSE <<Str(path)>>
        dim  == CASE rule.By = LimitByIP     -> <<"ip", ip>>
                  [] rule.By = LimitByUser   -> IF userID # "" THEN <<"user", userID>>
                                                ELSE <<"ip", ip>>
                  [] rule.By = LimitByPath   -> <<"path", Str(path)>>
                  [] rule.By = LimitByGlobal -> <<"global">>
                  [] OTHER                   -> <<>>
    IN  Join(head \o dim)

\* the code points of the characters paths and patterns are written with
Rune ==
    [c \in {"", "*", "-", "/", "?", "[", "\\", "]", "^", "a", "b", "c"} |->
       CASE c = "" -> 0 [] c = "*" -> 42 [] c = "-" -> 45 [] c = "/" -> 47
         [] c = "?" -> 63 [] c = "[" -> 91 [] c = "\\" -> 92 [] c = "]" -> 93
         [] c = "^" -> 94 [] c = "a" -> 97 [] c = "b" -> 98 [] c = "c" -> 99]

BadPattern == [bad |-> TRUE]

\* getEsc: the next character of a character class, possibly escaped; the
\* class must go on after it
GetEsc(chunk) ==
    IF chunk = <<>> \/ chunk[1] \in {"-", "]"} THEN BadPattern
    ELSE IF chunk[1] = "\\"
    THEN IF Len(chunk) < 3 THEN BadPattern
         ELSE [bad |-> FALSE, ch |-> chunk[2], rest |-> SubSeq(chunk, 3, Len(chunk))]
    ELSE IF Len(chunk) < 2 THEN BadPattern
         ELSE [bad |-> FALSE, ch |-> chunk[1], rest |-> Tail(chunk)]

\* the upper end of the range that starts with lo, hi being what getEsc
\* read after the `-`
RangeEnd(lo, hi, r, matched) ==
    IF hi.bad THEN BadPattern
    ELSE [bad |-> FALSE, rest |-> hi.rest,
          match |-> matched \/ (Rune[lo.ch] <= Rune[r] /\ Rune[r] <= Rune[hi.ch])]

\* one item of a character class: a character or a range lo-hi
ClassItem(lo, r, matched) ==
    IF lo.bad THEN BadPattern
    ELSE IF lo.rest[1] = "-" THEN RangeEnd(lo, GetEsc(Tail(lo.rest)), r, matched)
    ELSE [bad |-> FALSE, rest |-> lo.rest, match |-> matched \/ lo.ch = r]

RECURSIVE ClassItems(_, _, _, _)
RECURSIVE ClassNext(_, _, _)
\* the items of a character class up to its `]`, which closes the class
\* once there is an item: whether the character r is in one of them, and
\* the pattern that follows the class
ClassItems(chunk, r, nrange, matched) ==
    IF chunk # <<>> /\ chunk[1] = "]" /\ nrange > 0
    THEN [bad |-> FALSE, rest |-> Tail(chunk), match |-> matched]
    ELSE ClassNext(ClassItem(GetEsc(chunk), r, matched), r, nrange)

ClassNext(item, r, nrange) ==
    IF item.bad THEN BadPattern
    ELSE ClassItems(item.rest, r, nrange + 1, item.match)

\* a character class, after its `[`: a leading `^` negates it
Class(chunk, r) ==
    IF chunk # <<>> /\ chunk[1] = "^"
    THEN ClassItems(Tail(chunk), r, 0, FALSE)
    ELSE ClassItems(chunk, r, 0, FALSE)

Negated(chunk) == chunk # <<>> /\ chunk[1] = "^"

RECURSIVE Glob(_, _)
RECURSIVE GlobClass(_, _, _)
\* filepath.Match: `*` matches any run of characters other than `/`, `?`
\* one such character, `[...]` one character of the class, `\c` the
\* character c, any other character itself; a pattern that is malformed
\* where the match gets to is an error, which is no match
Glob(pattern, name) ==
    IF pattern = <<>> THEN name = <<>>
    ELSE IF pattern[1] = "*" THEN
        \/ Glob(Tail(pattern), name)
        \/ name # <<>> /\ name[1] # "/" /\ Glob(pattern, Tail(name))
    ELSE IF pattern[1] = "?" THEN
        name # <<>> /\ name[1] # "/" /\ Glob(Tail(pattern), Tail(name))
    ELSE IF pattern[1] = "[" THEN
        name # <<>> /\ GlobClass(Class(Tail(pattern), name[1]),
                                 Negated(Tail(pattern)), Tail(name))
    ELSE IF pattern[1] = "\\" THEN
        /\ Len(pattern) >= 2
        /\ name # <<>> /\ name[1] = pattern[2]
        /\ Glob(SubSeq(pattern, 3, Len(pattern)), Tail(name))
    ELSE name # <<>> /\ name[1] = pattern[1] /\ Glob(Tail(pattern), Tail(name))

\* the match after the class cls, which the first character was held against
GlobClass(cls, negated, name) ==
    /\ ~cls.bad
    /\ cls.match # negated
    /\ Glob(cls.rest, name)

RECURSIVE Malformed(_)
\* filepath.ErrBadPattern: a `\` with nothing after it, or a character
\* class that is empty, unclosed or has a broken range
Malformed(pattern) ==
    IF pattern = <<>> THEN FALSE
    ELSE IF pattern[1] = "\\"
    THEN Len(pattern) < 2 \/ Malformed(SubSeq(pattern, 3, Len(pattern)))
    ELSE IF pattern[1] = "["
    THEN \/ Class(Tail(pattern), "").bad
         \/ Malformed(Class(Tail(pattern), "").rest)
    ELSE Malformed(Tail(pattern))

matchPathOnError(pattern, path) ==
    pattern = path \/ Glob(pattern, path) \/ Malformed(pattern)

\* matchPath: the exact path, or a wildcard match; an error of the match
\* is no match
matchPath(pattern, path) == pattern = path \/ Glob(pattern, path)

MethodMatchesAny(rule, method) == TRUE

\* a rule applies to the request's method when it names none or that one
MethodMatches(rule, method) == rule.Method = "" \/ rule.Method = method

\* the Context a limiter returned, copied into a Result; the limiter
\* returns an error and no Context when one of its store operations failed
RuleOutcome(r) ==
    [store |-> r.store,
     res   |-> IF Failed(r.store) THEN NilResult ELSE r.ctx,
     err   |-> Failed(r.store)]

\* checkRule: the rule's limiter on the rule's key
checkRule(l, s, rule, req, t) ==
    CASE rule.Algorithm = AlgorithmFixedWindow ->
           RuleOutcome(FixedWindowAllow(s, buildKey(rule, req.path, req.ip, req.userID),
                                        rule.Limit, rule.Window, t))
      [] rule.Algorithm = AlgorithmSlidingWindow ->
           RuleOutcome(SlidingWindowAllow(s, buildKey(rule, req.path, req.ip, req.userID),
                                          rule.Limit, rule.Window, t, l.ulp))
      [] rule.Algorithm = AlgorithmTokenBucket ->
           RuleOutcome(TokenBucketAllow(s, buildKey(rule, req.path, req.ip, req.userID),
                                        rule.Capacity, rule.Rate, t))
      [] OTHER -> [store |-> s, res |-> NilResult, err |-> TRUE]

violationKey(dimension, identifier) == "violation:" \o dimension \o ":" \o identifier
blacklistKey(dimension, identifier) == "blacklist:" \o dimension \o ":" \o identifier

BanEntryForever(s, dimension, identifier, duration, t) ==
    Set(s, blacklistKey(dimension, identifier), 1)

\* the ban entry: the key set to 1, then given its lifetime
BanEntry(s, dimension, identifier, duration, t) ==
    Expire(Set(s, blacklistKey(dimension, identifier), 1),
           blacklistKey(dimension, identifier), duration, t)

checkAndBanExtending(l, s, dimension, identifier, t) ==
    LET vk  == violationKey(dimension, identifier)
        inc == Incr(s, vk)
        s1  == Expire(inc.store, vk, l.violationWindow, t)
    IN  IF inc.val >= l.violationThreshold
        THEN Del(BanEntry(s1, dimension, identifier, l.banDuration, t), vk)
        ELSE s1

\* checkAndBan: one more violation of the identifier; at the threshold it
\* is banned and its counter is cleared
checkAndBan(l, s, dimension, identifier, t) ==
    LET vk  == violationKey(dimension, identifier)
        inc == Incr(s, vk)
        s1  == IF inc.val = 1 THEN Expire(inc.store, vk, l.violationWindow, t)
               ELSE inc.store
    IN  IF inc.val >= l.violationThreshold
        THEN Del(BanEntry(s1, dimension, identifier, l.banDuration, t), vk)
        ELSE s1

recordViolationOfIPOnly(l, s, ip, userID, t) ==
    IF ~l.autoBanEnabled THEN s
    ELSE IF ip # "" /\ "ip" \in l.autoBanDimensions
    THEN checkAndBan(l, s, "ip", ip, t) ELSE s

\* recordViolation: the IP's violation, then the user's
recordViolation(l, s, ip, userID, t) ==
    IF ~l.autoBanEnabled THEN s
    ELSE LET s1 == IF ip # "" /\ "ip" \in l.autoBanDimensions
                   THEN checkAndBan(l, s, "ip", ip, t) ELSE s
         IN  IF userID # "" /\ "user" \in l.autoBanDimensions
             THEN checkAndBan(l, s1, "user", userID, t) ELSE s1

DynamicBannedUngated(l, s, dimension, identifier) ==
    Get(s, blacklistKey(dimension, identifier)) > 0

\* the dynamic blacklist of a dimension is read only when auto-ban covers it
DynamicBanned(l, s, dimension, identifier) ==
    /\ l.autoBanEnabled
    /\ dimension \in l.autoBanDimensions
    /\ Get(s, blacklistKey(dimension, identifier)) > 0

ACLUserWhiteFirst(l, s, ip, userID) ==
    IF userID # "" /\ userID \in l.whitelistUsers THEN "user_whitelist"
    ELSE IF userID # "" /\ userID \in l.blacklistUsers THEN "user_blacklist"
    ELSE IF userID # "" /\ DynamicBanned(l, s, "user", userID) THEN "user_banned"
    ELSE IF ip # "" /\ ip \in l.blacklistIPs THEN "ip_blacklist"
    ELSE IF ip # "" /\ DynamicBanned(l, s, "ip", ip) THEN "ip_banned"
    ELSE IF ip # "" /\ ip \in l.whitelistIPs THEN "ip_whitelist"
    ELSE "none"

ACLWithoutIPWhitelist(l, s, ip, userID) ==
    IF userID # "" /\ userID \in l.blacklistUsers THEN "user_blacklist"
    ELSE IF userID # "" /\ DynamicBanned(l, s, "user", userID) THEN "user_banned"
    ELSE IF userID # "" /\ userID \in l.whitelistUsers THEN "user_whitelist"
    ELSE IF ip # "" /\ ip \in l.blacklistIPs THEN "ip_blacklist"
    ELSE IF ip # "" /\ DynamicBanned(l, s, "ip", ip) THEN "ip_banned"
    ELSE "none"

\* the access lists, in the order Check consults them: the return that
\* ends the request, or "none"
ACL(l, s, ip, userID) ==
    IF userID # "" /\ userID \in l.blacklistUsers THEN "user_blacklist"
    ELSE IF userID # "" /\ DynamicBanned(l, s, "user", userID) THEN "user_banned"
    ELSE IF userID # "" /\ userID \in l.whitelistUsers THEN "user_whitelist"
    ELSE IF ip # "" /\ ip \in l.blacklistIPs THEN "ip_blacklist"
    ELSE IF ip # "" /\ DynamicBanned(l, s, "ip", ip) THEN "ip_banned"
    ELSE IF ip # "" /\ ip \in l.whitelistIPs THEN "ip_whitelist"
    ELSE "none"

\* Check sends the Get of the user's dynamic blacklist entry
UserLookup(l, userID) ==
    /\ userID # ""
    /\ userID \notin l.blacklistUsers
    /\ l.autoBanEnabled
    /\ "user" \in l.autoBanDimensions

\* Check sends the Get of the IP's dynamic blacklist entry: the user part
\* has not returned, the IP is not statically blacklisted
IPLookup(l, s, ip, userID) ==
    /\ \/ userID = ""
       \/ /\ userID \notin l.blacklistUsers
          /\ ~DynamicBanned(l, s, "user", userID)
          /\ userID \notin l.whitelistUsers
    /\ ip # ""
    /\ ip \notin l.blacklistIPs
    /\ l.autoBanEnabled
    /\ "ip" \in l.autoBanDimensions

\* the store once the access-list part has sent its reads
ACLStore(l, s, ip, userID) ==
    IF UserLookup(l, userID)
    THEN IF IPLookup(l, s, ip, userID) THEN Read(Read(s)) ELSE Read(s)
    ELSE IF IPLookup(l, s, ip, userID) THEN Read(s) ELSE s

ACLDenyStages == {"user_blacklist", "user_banned", "ip_blacklist", "ip_banned"}
ACLAllowStages == {"user_whitelist", "ip_whitelist"}

ACLReturnRecording(l, s, req, stage, t) ==
    [store |-> IF stage \in ACLDenyStages
               THEN recordViolation(l, s, req.ip, req.userID, t) ELSE s,
     res |-> PlainResult(stage \in ACLAllowStages), err |-> FALSE,
     via |-> stage, evaluated |-> <<>>]

\* a return of the access-list part of Check: no rule runs, the store is
\* left as it is
ACLReturn(l, s, req, stage, t) ==
    [store |-> s, res |-> PlainResult(stage \in ACLAllowStages), err |-> FALSE,
     via |-> stage, evaluated |-> <<>>]

\* the Result Check returns when no rule denied
PassResult(evaluated) == PlainResult(TRUE)

\* a return of the rule part of Check
Outcome(store_, res, err, via, evaluated) ==
    [store |-> store_, res |-> res, err |-> err, via |-> via, evaluated |-> evaluated]

ViolationReturnIgnoringError(sv, res, via, evaluated) ==
    Outcome(sv, res, FALSE, via, evaluated)

\* the return after recordViolation left the store sv: its error, or the
\* deny of the rule
ViolationReturn(sv, res, via, evaluated) ==
    IF Failed(sv) THEN Outcome(sv, NilResult, TRUE, "error", evaluated)
    ELSE Outcome(sv, res, FALSE, via, evaluated)

RECURSIVE ScanRules(_, _, _, _, _, _)
RECURSIVE RuleVerdict(_, _, _, _, _, _, _, _)

RuleVerdictRefunding(l, r, name, i, req, t, evaluated, via) ==
    LET ev == Append(evaluated, [name |-> name, res |-> r.res])
        refunded == IF l.globalRule = NoRule THEN r.store
                    ELSE [Remove(r.store, buildKey(l.globalRule, req.path, req.ip, req.userID))
                            EXCEPT !.ops = r.store.ops]
    IN  IF r.err THEN Outcome(r.store, NilResult, TRUE, "error", ev)
        ELSE IF ~r.res.Allowed
        THEN ViolationReturn(recordViolation(l, refunded, req.ip, req.userID, t),
                             r.res, via, ev)
        ELSE ScanRules(l, r.store, i + 1, req, t, ev)

\* what the loop does with the return r of checkRule for rule i: an error
\* and a deny end the request (the deny after recordViolation), an allow
\* moves on to the next rule
RuleVerdict(l, r, name, i, req, t, evaluated, via) ==
    LET ev == Append(evaluated, [name |-> name, res |-> r.res])
    IN  IF r.err THEN Outcome(r.store, NilResult, TRUE, "error", ev)
        ELSE IF ~r.res.Allowed
        THEN ViolationReturn(recordViolation(l, r.store, req.ip, req.userID, t),
                             r.res, via, ev)
        ELSE ScanRules(l, r.store, i + 1, req, t, ev)

\* the loop over l.rules from index i on
ScanRules(l, s, i, req, t, evaluated) ==
    IF i > Len(l.rules)
    THEN Outcome(s, PassResult(evaluated), FALSE, "pass", evaluated)
    ELSE IF ~matchPath(l.rules[i].Path, req.path) \/ ~MethodMatches(l.rules[i], req.method)
    THEN ScanRules(l, s, i + 1, req, t, evaluated)
    ELSE RuleVerdict(l, checkRule(l, s, l.rules[i], req, t), l.rules[i].Name,
                     i, req, t, evaluated, "rule")

\* Check once the access-list part has sent its reads and left the store sa:
\* the error of a failed read, the return of a list, or the rules
AfterACL(l, sa, stage, req, t) ==
    IF Failed(sa) THEN Outcome(sa, NilResult, TRUE, "error", <<>>)
    ELSE IF stage # "none" THEN ACLReturn(l, sa, req, stage, t)
    ELSE IF l.globalRule = NoRule THEN ScanRules(l, sa, 1, req, t, <<>>)
    ELSE RuleVerdict(l, checkRule(l, sa, l.globalRule, req, t), l.globalRule.Name,
                     0, req, t, <<>>, "global_rule")

PolicyEnabledAlways(l) == TRUE

\* the master switch
PolicyEnabled(l) == l.enabled

\* Limiter.Check: the store after the call, the Result (or the error), the
\* return that produced it and the rules evaluated on the way, each with
\* what checkRule returned for it
Check(l, s, req, t) ==
    IF ~PolicyEnabled(l)
    THEN Outcome(s, PlainResult(TRUE), FALSE, "disabled", <<>>)
    ELSE AfterACL(l, ACLStore(l, s, req.ip, req.userID),
                  ACL(l, s, req.ip, req.userID), req, t)

---------------------------------------------------------------------------
(* The engine's specification: one Limiter built from a configuration,     *)
(* Check called with requests, time passing.                                *)

MaxThreshold == 2
MaxWeight == 2
MaxCount == 3
MaxChecks == 3
MaxClock == 3
ViolationWindow == 2
BanDuration == 2

PathA == <<"/", "a">>
PathB == <<"/", "b">>

\* strings.ToUpper, on the method names a configuration may spell
ToUpper(m) ==
    CASE m = "get"  -> "GET"
      [] m = "post" -> "POST"
      [] OTHER      -> m

\* a RuleConfig turned into a Rule; durations are in ticks
ToRule(name, path, method, by, algo, limit, window, capacity, rate, record, weight) ==
    [Name |-> name, Path |-> path, Method |-> ToUpper(method), By |-> by,
     Algorithm |-> algo, Limit |-> limit, Window |-> window,
     Capacity |-> capacity, Rate |-> rate,
     RecordViolation |-> record, ViolationWeight |-> weight]

\* the global rule NewFromConfig builds from the global section: a name, the
\* path "*", the algorithm, a limit and a window; every other field is zero
GlobalRule ==
    [Name |-> "global", Path |-> <<"*">>, Method |-> "", By |-> LimitByGlobal,
     Algorithm |-> AlgorithmFixedWindow, Limit |-> 2, Window |-> 2,
     Capacity |-> 0, Rate |-> [num |-> 0, den |-> 1],
     RecordViolation |-> FALSE, ViolationWeight |-> 0]

\* the configured rules, in configuration order; the first records its
\* denies as violations, the second is configured not to
RulesOf(weight) ==
    << ToRule("r1", PathA, "", LimitByIP, AlgorithmTokenBucket,
              0, 0, 1, [num |-> 1, den |-> 1], TRUE, weight),
       ToRule("r2", <<"/", "*">>, "get", LimitByUser, AlgorithmSlidingWindow,
              1, 3, 0, [num |-> 0, den |-> 1], FALSE, weight) >>

\* NewFromConfig: the Limiter of a configuration
NewFromConfig(enabled, withGlobal, dimensions, threshold, weight) ==
    [enabled |-> enabled,
     globalRule |-> IF withGlobal THEN GlobalRule ELSE NoRule,
     rules |-> RulesOf(weight),
     whitelistIPs |-> {"iw", "ibw"}, blacklistIPs |-> {"ibw"},
     whitelistUsers |-> {"uw", "ubw"}, blacklistUsers |-> {"ubw"},
     autoBanEnabled |-> dimensions # {},
     autoBanDimensions |-> dimensions,
     violationThreshold |-> threshold,
     violationWindow |-> ViolationWindow,
     banDuration |-> BanDuration,
     ulp |-> 1]

\* the configurations: the disabled one and the enabled ones, with and
\* without a global rule, over the auto-ban dimensions, the thresholds and
\* the weights (a threshold only where auto-ban is on, a weight above 1
\* only with both dimensions and no global rule)
Limiters ==
    { NewFromConfig(FALSE, TRUE, {"ip", "user"}, 1, 1) } \cup
    { NewFromConfig(TRUE, c[1], c[2], c[3], c[4]) :
        c \in { x \in BOOLEAN \X (SUBSET {"ip", "user"})
                        \X (1..MaxThreshold) \X (1..MaxWeight) :
                  /\ x[2] = {} => x[3] = 1
                  /\ x[4] > 1 => (~x[1] /\ x[2] = {"ip", "user"}) } }

\* the callers no list names send every path and method; a listed caller
\* sends one request
Requests ==
    [path : {PathA, PathB}, method : {"GET", "POST"},
     ip : {"i1"}, userID : {"", "u1"}] \cup
    [path : {PathA}, method : {"GET"},
     ip : {"i1", "iw", "ibw"}, userID : {"", "u1", "uw", "ubw"}]

\* the dimensions of a request whose violations feed the auto-ban
Fed(l, req) ==
    { d \in l.autoBanDimensions :
        /\ l.autoBanEnabled
        /\ (IF d = "ip" THEN req.ip ELSE req.userID) # "" }

IdOf(req, d) == IF d = "ip" THEN req.ip ELSE req.userID

GhostKey(d, id) == d \o ":" \o id

RuleDenied(out) == out.via \in {"rule", "global_rule"}

\* the observer's record of a call: per identifier the denies of the running
\* violation window and the time and deny count of its latest ban
Observe(h, l, s, out, req, t) ==
    LET fed   == IF RuleDenied(out) THEN Fed(l, req) ELSE {}
        keys  == { GhostKey(d, IdOf(req, d)) : d \in fed }
        old(k) == IF k \in DOMAIN h.viol THEN h.viol[k] ELSE [n |-> 0, since |-> t]
        cnt(k) == [n |-> old(k).n + 1, since |-> old(k).since]
        newly == { d \in fed :
                     /\ ~Exists(s, blacklistKey(d, IdOf(req, d)))
                     /\ Exists(out.store, blacklistKey(d, IdOf(req, d))) }
        nkeys == { GhostKey(d, IdOf(req, d)) : d \in newly }
    IN  [viol |-> [k \in (DOMAIN h.viol \cup keys) \ nkeys |->
                     IF k \in keys THEN cnt(k) ELSE h.viol[k]],
         ban  |-> [k \in DOMAIN h.ban \cup nkeys |->
                     IF k \in nkeys THEN [at |-> t, n |-> cnt(k).n] ELSE h.ban[k]],
         calls |-> h.calls + 1,
         faults |-> h.faults + IF Failed(out.store) THEN 1 ELSE 0]

\* the observer's violation windows that have run out by time t
Age(h, l, t) ==
    [viol |-> [k \in { x \in DOMAIN h.viol : h.viol[x].since + l.violationWindow > t }
                 |-> h.viol[k]],
     ban  |-> h.ban, calls |-> h.calls, faults |-> h.faults]

Init ==
    /\ store = EmptyStore
    /\ now = 0
    /\ cfg \in Limiters
    /\ last = NoCall
    /\ hist = [viol |-> EmptyMap, ban |-> EmptyMap, calls |-> 0, faults |-> 0]

CounterRoom ==
    /\ hist.calls < MaxChecks
    /\ \A k \in DOMAIN store.kv : store.kv[k] < MaxCount

\* Check returned out for req: the store is the one it left
CheckReturns(req, out) ==
    /\ store' = Settle(out.store)
    /\ last' = [op |-> "check", req |-> req, res |-> out.res,
                err |-> out.err, via |-> out.via, evaluated |-> out.evaluated,
                ops |-> out.store.ops, failed |-> Failed(out.store)]
    /\ hist' = Observe(hist, cfg, store, out, req, now)
    /\ UNCHANGED <<now, cfg>>

CheckCall ==
    /\ CounterRoom
    /\ \E req \in Requests : CheckReturns(req, Check(cfg, store, req, now))

Advance ==
    /\ now < MaxClock
    /\ now' = now + 1
    /\ store' = Purge(store, now + 1)
    /\ hist' = Age(hist, cfg, now + 1)
    /\ last' = NoCall
    /\ UNCHANGED cfg

Next == CheckCall \/ Advance

Spec == Init /\ [][Next]_vars

\* a step of Spec in which Check was called (time stands still, and the
\* call is the one `last` records after the step)
CheckStep == now' = now /\ last'.op = "check"

---------------------------------------------------------------------------
(* The engine over a store whose operations can fail: a call of Check may
   have one of its store operations, the f-th it sends, return an error.
   What the operations before it wrote stays in the store. *)

\* the calls of one behaviour during which the store fails
MaxFaults == 1

\* the limiters of this specification: every stage of Check talks to the store
FaultLimiters ==
    {NewFromConfig(TRUE, TRUE, {"ip", "user"}, th, 1) : th \in 1..MaxThreshold}

InitFault ==
    /\ store = EmptyStore
    /\ now = 0
    /\ cfg \in FaultLimiters
    /\ last = NoCall
    /\ hist = [viol |-> EmptyMap, ban |-> EmptyMap, calls |-> 0, faults |-> 0]

\* the number of store operations Check sends for req when none fails
OpsOf(req) == Check(cfg, Arm(store, 0), req, now).store.ops

\* a call of Check during which the f-th store operation it sends fails
FaultyCheckCall ==
    /\ CounterRoom
    /\ hist.faults < MaxFaults
    /\ \E req \in Requests :
          \E f \in 1..OpsOf(req) :
             CheckReturns(req, Check(cfg, Arm(store, f), req, now))

NextFault == CheckCall \/ FaultyCheckCall \/ Advance

SpecFault == InitFault /\ [][NextFault]_vars

---------------------------------------------------------------------------
(* C13 *)

\* C13: a call of Check during which a store operation failed (a read of
\* the dynamic blacklists, an operation of a rule's limiter, an operation
\* of violation recording) returns an error and no Result, never an allow
\* or a deny; and a call none of whose store operations failed returns a
\* Result and no error
C13_StoreErrorsSurface ==
    last.op = "check" =>
        IF last.failed THEN last.err /\ last.res = NilResult
        ELSE ~last.err /\ last.res # NilResult

\* a rule denied the request and the store failed while the violation was
\* being recorded, after the IP's counter had been written
C13_Witness ==
    /\ last.op = "check"
    /\ last.failed
    /\ last.evaluated # <<>>
    /\ last.evaluated[Len(last.evaluated)].res # NilResult
    /\ ~last.evaluated[Len(last.evaluated)].res.Allowed
    /\ last.req.ip # "" /\ Exists(store, violationKey("ip", last.req.ip))

\* the store failed on a read of the dynamic blacklist, before any rule
C13_WitnessACL ==
    /\ last.op = "check"
    /\ last.failed
    /\ last.ops <= 2
    /\ last.evaluated = <<>>

\* the store failed inside a rule's limiter
C13_WitnessRule ==
    /\ last.op = "check"
    /\ last.failed
    /\ last.evaluated # <<>>
    /\ last.evaluated[Len(last.evaluated)].res = NilResult

---------------------------------------------------------------------------
(* C4, C5 *)

\* the four stages of the access lists, in the documented order, and when
\* each applies to a request given the bans the store holds
ACLStageApplies(i, l, s, req) ==
    CASE i = 1 -> /\ req.userID # ""
                  /\ \/ req.userID \in l.blacklistUsers
                     \/ DynamicBanned(l, s, "user", req.userID)
      [] i = 2 -> req.userID # "" /\ req.userID \in l.whitelistUsers
      [] i = 3 -> /\ req.ip # ""
                  /\ \/ req.ip \in l.blacklistIPs
                     \/ DynamicBanned(l, s, "ip", req.ip)
      [] i = 4 -> req.ip # "" /\ req.ip \in l.whitelistIPs

\* the first stage that applies, 0 when none does
ACLFirstStage(l, s, req) ==
    IF \E i \in 1..4 : ACLStageApplies(i, l, s, req)
    THEN CHOOSE i \in 1..4 :
            /\ ACLStageApplies(i, l, s, req)
            /\ \A j \in 1..(i - 1) : ~ACLStageApplies(j, l, s, req)
    ELSE 0

\* C4: with the policy enabled, the verdict of Check is that of the first
\* stage that applies, in the order user blacklist (static or dynamic ban)
\* -> deny, user whitelist -> allow, IP blacklist (static or dynamic ban)
\* -> deny, IP whitelist -> allow.
C4_ACLPrecedence ==
    [][ (CheckStep /\ cfg.enabled /\ ACLFirstStage(cfg, store, last'.req) # 0)
        => /\ ~last'.err
           /\ last'.res.Allowed = (ACLFirstStage(cfg, store, last'.req) \in {2, 4}) ]_vars

\* a whitelisted user was admitted from a blacklisted IP
C4_Witness ==
    /\ last.op = "check"
    /\ cfg.enabled
    /\ last.req.userID \in cfg.whitelistUsers \ cfg.blacklistUsers
    /\ last.req.ip \in cfg.blacklistIPs
    /\ last.res.Allowed

\* C5: a request Check denies because of the access lists (static
\* blacklist or dynamic ban) has no rule evaluated and leaves the whole
\* store as it was: no counter, log, bucket or violation counter is written.
C5_ACLDenyWritesNothing ==
    [][ (CheckStep /\ cfg.enabled /\ ACLFirstStage(cfg, store, last'.req) \in {1, 3})
        => /\ ~last'.res.Allowed
           /\ last'.evaluated = <<>>
           /\ store' = store ]_vars

\* a dynamically banned caller was denied while the store holds the state
\* of rules
C5_Witness ==
    /\ last.op = "check"
    /\ last.via \in {"user_banned", "ip_banned"}
    /\ ~last.res.Allowed
    /\ (DOMAIN store.h) \cup (DOMAIN store.z) # {}

---------------------------------------------------------------------------
(* C6, C7 *)

\* the identifiers requests carry in a dimension
IdsOf(d) == { IdOf(q, d) : q \in Requests } \ {""}

\* the denies after which the documented loop bans: ceil(T / w), w being
\* the weight of the configured rules
DeniesToBan(l) == CeilDiv(l.violationThreshold, l.rules[1].ViolationWeight)

\* C6: with auto-ban enabled for a dimension, threshold T and violation
\* weight w, an identifier is banned after exactly ceil(T / w) denies
\* recorded within the violation window, not earlier and not later, and a
\* banned identifier's request does not pass the rules.
C6_BanAfterCeilDenies ==
    \A d \in cfg.autoBanDimensions : \A id \in IdsOf(d) :
        /\ GhostKey(d, id) \in DOMAIN hist.viol
              => hist.viol[GhostKey(d, id)].n < DeniesToBan(cfg)
        /\ Exists(store, blacklistKey(d, id))
              => /\ GhostKey(d, id) \in DOMAIN hist.ban
                 /\ hist.ban[GhostKey(d, id)].n = DeniesToBan(cfg)
        /\ (last.op = "check" /\ last.via = "pass" /\ IdOf(last.req, d) = id)
              => ~Exists(store, blacklistKey(d, id))

---------------------------------------------------------------------------
(* C8 *)

DecisionSane(res) == res.Remaining >= 0 /\ (res.Allowed => res.RetryAfter = 0)

\* C8: every Decision a limiter returns to checkRule and every Decision
\* Check returns has remaining >= 0 and, when allowed, retry_after 0.
C8_RemainingAndRetryAfter ==
    (last.op = "check" /\ ~last.err)
       => /\ DecisionSane(last.res)
          /\ \A i \in 1..Len(last.evaluated) : DecisionSane(last.evaluated[i].res)

---------------------------------------------------------------------------
(* C9, C10 *)

\* the rules a request is to be evaluated against, in order: the global
\* rule, then the listed rules whose pattern matches the path and whose
\* method is empty or the request's
Candidates(l, req) ==
    (IF l.globalRule = NoRule THEN <<>> ELSE <<l.globalRule>>) \o
    SelectSeq(l.rules, LAMBDA r : /\ matchPath(r.Path, req.path)
                                  /\ (r.Method = "" \/ r.Method = req.method))

AllRules(l) ==
    (IF l.globalRule = NoRule THEN {} ELSE {l.globalRule}) \cup
    { l.rules[i] : i \in 1..Len(l.rules) }

\* what the store holds under a key
KeyState(s, k) ==
    [kv  |-> IF k \in DOMAIN s.kv THEN <<s.kv[k]>> ELSE <<>>,
     z   |-> IF k \in DOMAIN s.z THEN <<s.z[k]>> ELSE <<>>,
     h   |-> IF k \in DOMAIN s.h THEN <<s.h[k]>> ELSE <<>>,
     exp |-> IF k \in DOMAIN s.exp THEN <<s.exp[k]>> ELSE <<>>]

\* the call c evaluated the candidates in order, up to the first deny
EvaluatedInOrder(l, c) ==
    LET cands == Candidates(l, c.req)
        ev    == c.evaluated
    IN  /\ Len(ev) <= Len(cands)
        /\ \A i \in 1..Len(ev) : ev[i].name = cands[i].Name
        /\ \A i \in 1..(Len(ev) - 1) : ev[i].res.Allowed
        /\ IF \E i \in 1..Len(ev) : ~ev[i].res.Allowed
           THEN ~c.res.Allowed /\ c.res = ev[Len(ev)].res
           ELSE c.res.Allowed /\ Len(ev) = Len(cands)

\* C9: a request that passes the access lists is evaluated against the
\* global rule first, then against the listed rules that match its path and
\* method, in declaration order; the first deny is returned at once, an
\* allow moves on; a rule that is not evaluated keeps its state.
C9_EvaluationOrder ==
    [][ (CheckStep /\ cfg.enabled /\ ACLFirstStage(cfg, store, last'.req) = 0)
        => /\ EvaluatedInOrder(cfg, last')
           /\ \A rule \in AllRules(cfg) :
                 (\A i \in 1..Len(last'.evaluated) : last'.evaluated[i].name # rule.Name)
                    => \A q \in Requests :
                          KeyState(store', buildKey(rule, q.path, q.ip, q.userID))
                             = KeyState(store, buildKey(rule, q.path, q.ip, q.userID)) ]_vars

\* the global rule allowed, the first listed rule denied, and a later rule
\* that matches the request was not evaluated
C9_Witness ==
    /\ last.op = "check"
    /\ ~last.res.Allowed
    /\ Len(last.evaluated) = 2
    /\ last.evaluated[1].name = cfg.globalRule.Name
    /\ Len(Candidates(cfg, last.req)) = 3

\* the effective quota of a rule
QuotaOf(rule) ==
    IF rule.Algorithm = AlgorithmTokenBucket THEN rule.Capacity ELSE rule.Limit

\* C10: a verdict of Check reached after evaluating at least one rule,
\* admitted or denied, carries the quota and the remaining of an evaluated
\* rule; the limit is 0 only when no rule was evaluated.
C10_DecisionLimit ==
    (last.op = "check" /\ ~last.err)
       => IF last.evaluated = <<>> THEN last.res.Limit = 0
          ELSE \E i \in 1..Len(last.evaluated) :
                  \E rule \in AllRules(cfg) :
                     /\ rule.Name = last.evaluated[i].name
                     /\ last.res.Limit = QuotaOf(rule)
                     /\ last.res.Remaining = last.evaluated[i].res.Remaining

---------------------------------------------------------------------------
(* C11, C12 *)

\* the rule whose deny ended the call c
DenyingRule(l, c) ==
    CHOOSE rule \in AllRules(l) : rule.Name = c.evaluated[Len(c.evaluated)].name

\* the step is a Check call that a rule denied
RuleDenyStep ==
    /\ CheckStep
    /\ ~last'.err
    /\ last'.evaluated # <<>>
    /\ ~last'.res.Allowed

\* C11: a deny by a rule whose record_violation is false leaves every
\* violation counter and every ban entry as it was.
C11_UnrecordedDenyFeedsNothing ==
    [][ (RuleDenyStep /\ ~DenyingRule(cfg, last').RecordViolation)
        => \A d \in {"ip", "user"} : \A id \in IdsOf(d) :
              /\ KeyState(store', violationKey(d, id)) = KeyState(store, violationKey(d, id))
              /\ KeyState(store', blacklistKey(d, id)) = KeyState(store, blacklistKey(d, id))
      ]_vars

\* C12: a recorded deny adds the denying rule's violation_weight to the
\* violation counter of every dimension it feeds (banning at the threshold),
\* and the counter gets its TTL on the increment whose result is the weight.
C12_WeightedViolations ==
    [][ (RuleDenyStep /\ DenyingRule(cfg, last').RecordViolation)
        => \A d \in Fed(cfg, last'.req) :
              IF Get(store, violationKey(d, IdOf(last'.req, d)))
                    + DenyingRule(cfg, last').ViolationWeight >= cfg.violationThreshold
              THEN Exists(store', blacklistKey(d, IdOf(last'.req, d)))
              ELSE /\ Get(store', violationKey(d, IdOf(last'.req, d)))
                         = Get(store, violationKey(d, IdOf(last'.req, d)))
                              + DenyingRule(cfg, last').ViolationWeight
                   /\ Get(store', violationKey(d, IdOf(last'.req, d)))
                         = DenyingRule(cfg, last').ViolationWeight
                      => /\ violationKey(d, IdOf(last'.req, d)) \in DOMAIN store'.exp
                         /\ store'.exp[violationKey(d, IdOf(last'.req, d))]
                               = now + cfg.violationWindow
      ]_vars

---------------------------------------------------------------------------
(* C16 *)

\* the rule limited by USER
UserRule(l) == CHOOSE rule \in AllRules(l) : rule.By = LimitByUser

\* the key the claim counts a request under for the rule limited by USER
UserRuleKey(l, req) ==
    IF req.userID = "" THEN UserRule(l).Name \o ":ip:" \o req.ip
    ELSE UserRule(l).Name \o ":user:" \o req.userID

\* the keys of that rule for the IPs and the users of all requests
UserRuleKeys(l) ==
    {UserRule(l).Name \o ":ip:" \o r.ip : r \in Requests} \cup
    {UserRule(l).Name \o ":user:" \o r.userID : r \in Requests}

\* the admissions of the running window logged under key k of the rule
LoggedUnder(l, s, k, t) == ZCount(s, k, t - UserRule(l).Window + 1, 2 * t)

\* the call c evaluated the rule limited by USER
EvaluatedUserRule(l, c) ==
    \E i \in 1..Len(c.evaluated) : c.evaluated[i].name = UserRule(l).Name

\* what the rule limited by USER returned in call c
UserRuleResult(l, c) ==
    c.evaluated[CHOOSE i \in 1..Len(c.evaluated) :
                    c.evaluated[i].name = UserRule(l).Name].res

---------------------------------------------------------------------------
(* Specification SpecSwitch: the engine whose master switch is turned off
   while it runs - the service is restarted with default.enabled false over
   the same store, which keeps the bans and the counters written before. *)

InitSwitch == InitFault

\* NewFromConfig with the same configuration but default.enabled false
SwitchOff ==
    /\ cfg.enabled
    /\ cfg' = [cfg EXCEPT !.enabled = FALSE]
    /\ last' = NoCall
    /\ UNCHANGED <<store, now, hist>>

NextSwitch == CheckCall \/ Advance \/ SwitchOff

SpecSwitch == InitSwitch /\ [][NextSwitch]_vars

---------------------------------------------------------------------------
(* C17 *)

\* C17: with the master switch off, Check allows every request, sends no
\* operation to the store and leaves the store as it is
C17_DisabledAllowsAll ==
    [][ (CheckStep /\ ~cfg.enabled)
          => /\ ~last'.err
             /\ last'.res.Allowed
             /\ last'.ops = 0
             /\ store' = store
      ]_vars

\* with the switch off, a request of a dynamically banned IP was allowed
C17_Witness ==
    /\ last.op = "check"
    /\ ~cfg.enabled
    /\ last.res.Allowed
    /\ Exists(store, blacklistKey("ip", last.req.ip))

\* with the switch off, a request of a statically blacklisted user was allowed
C17_WitnessStatic ==
    /\ last.op = "check"
    /\ ~cfg.enabled
    /\ last.res.Allowed
    /\ last.req.userID \in cfg.blacklistUsers

---------------------------------------------------------------------------
(* C20 *)

\* the step banned the identifier of dimension d and cleared its counter
BannedNow(d, id) ==
    /\ ~Exists(store, blacklistKey(d, id))
    /\ Exists(store', blacklistKey(d, id))
    /\ ~Exists(store', violationKey(d, id))

\* C20: a recorded deny counts a violation for every enabled auto-ban
\* dimension whose identifier in the request is non-empty - its counter
\* grows, or it reaches the threshold and the identifier is banned - so
\* that an IP and a user with the same count are banned by the same deny;
\* a dimension that is not enabled or whose identifier is empty gets no
\* counter and no ban
C20_EveryDimensionRecorded ==
    [][ (RuleDenyStep /\ DenyingRule(cfg, last').RecordViolation)
          => /\ \A d \in Fed(cfg, last'.req) :
                    \/ BannedNow(d, IdOf(last'.req, d))
                    \/ /\ Get(store', violationKey(d, IdOf(last'.req, d)))
                            > Get(store, violationKey(d, IdOf(last'.req, d)))
                       /\ ~Exists(store', blacklistKey(d, IdOf(last'.req, d)))
             /\ (Fed(cfg, last'.req) = {"ip", "user"}
                  /\ Get(store, violationKey("ip", last'.req.ip))
                       = Get(store, violationKey("user", last'.req.userID)))
                    => (BannedNow("ip", last'.req.ip)
                          <=> BannedNow("user", last'.req.userID))
             /\ \A d \in {"ip", "user"} \ Fed(cfg, last'.req) :
                    /\ KeyState(store', violationKey(d, IdOf(last'.req, d)))
                         = KeyState(store, violationKey(d, IdOf(last'.req, d)))
                    /\ KeyState(store', blacklistKey(d, IdOf(last'.req, d)))
                         = KeyState(store, blacklistKey(d, IdOf(last'.req, d)))
                    /\ ~Exists(store', violationKey(d, ""))
      ]_vars

\* one deny of a request with an IP and a user banned both
C20_Witness ==
    /\ last.op = "check"
    /\ ~last.err
    /\ last.via \in {"rule", "global_rule"}
    /\ ~last.res.Allowed
    /\ DenyingRule(cfg, last).RecordViolation
    /\ last.req.ip # "" /\ last.req.userID # ""
    /\ Exists(store, blacklistKey("ip", last.req.ip))
    /\ Exists(store, blacklistKey("user", last.req.userID))

\* a deny of an anonymous request was recorded for its IP only
C20_WitnessAnonymous ==
    /\ last.op = "check"
    /\ ~last.err
    /\ last.via \in {"rule", "global_rule"}
    /\ ~last.res.Allowed
    /\ last.req.userID = ""
    /\ cfg.autoBanDimensions = {"ip", "user"}
    /\ Exists(store, violationKey("ip", last.req.ip))

---------------------------------------------------------------------------
(* Specification SpecGate: the engine whose auto-ban dimensions are cut
   down while it runs - the service is restarted with fewer entries in
   auto_ban.dimensions (or with auto-ban disabled) over the same store,
   which keeps the bans and the counters written before. *)

InitGate == InitFault

\* NewFromConfig with the same configuration but fewer auto-ban dimensions
Regate ==
    /\ cfg.autoBanDimensions = {"ip", "user"}
    /\ \E dims \in (SUBSET {"ip", "user"}) \ {{"ip", "user"}} :
          cfg' = NewFromConfig(TRUE, TRUE, dims, cfg.violationThreshold, 1)
    /\ last' = NoCall
    /\ UNCHANGED <<store, now, hist>>

NextGate == CheckCall \/ Advance \/ Regate

SpecGate == InitGate /\ [][NextGate]_vars

---------------------------------------------------------------------------
(* C21 *)

\* the dimensions auto-ban covers
Covered(l) == IF l.autoBanEnabled THEN l.autoBanDimensions ELSE {}

\* the dynamic blacklist lookups a request can cause: one for each covered
\* dimension whose identifier is not empty
LookupsAllowed(l, req) == Cardinality({d \in Covered(l) : IdOf(req, d) # ""})

\* C21: for a dimension auto-ban does not cover, Check does not read the
\* dynamic blacklist entry (a call that returns from the list checks has
\* sent no more reads than there are covered dimensions), never denies
\* because of it even when the entry is in the store, and never creates or
\* changes the violation counter
C21_DimensionGating ==
    [][ (CheckStep /\ cfg.enabled)
          => /\ \A d \in {"ip", "user"} \ Covered(cfg) :
                    /\ last'.via # d \o "_banned"
                    /\ \A id \in IdsOf(d) \cup {""} :
                          /\ KeyState(store', violationKey(d, id))
                               = KeyState(store, violationKey(d, id))
                          /\ KeyState(store', blacklistKey(d, id))
                               = KeyState(store, blacklistKey(d, id))
             /\ last'.via \in ACLDenyStages \cup ACLAllowStages
                  => last'.ops <= LookupsAllowed(cfg, last'.req)
      ]_vars

\* a request whose user has a ban entry in the store passed all checks,
\* the user dimension not being covered
C21_Witness ==
    /\ last.op = "check"
    /\ "user" \notin Covered(cfg)
    /\ last.req.userID # ""
    /\ Exists(store, blacklistKey("user", last.req.userID))
    /\ last.res.Allowed
    /\ last.via = "pass"

---------------------------------------------------------------------------
(* Specification SpecPath: Check of a Limiter with one rule, whose path
   pattern is drawn at the start, for requests of any path. *)

MaxPatternLen == 2

PatternChars == {"*", "-", "/", "?", "[", "\\", "]", "^", "a", "b"}

PathChars == {"/", "a", "[", "\\"}

\* "/api/*", "/api/*/user", "/api/[a-b]", "/api/[^a]", "[invalid", ...
Patterns ==
    UNION {[1..n -> PatternChars] : n \in 1..MaxPatternLen} \cup
    { <<"/", "a", "/", "*">>, <<"/", "a", "/", "*", "/", "b">>,
      <<"/", "a", "/", "[", "a", "-", "b", "]">>, <<"/", "a", "/", "[", "^", "a", "]">>,
      <<"/", "[", "a">>, <<"/", "a", "/", "*", "[">>, <<"/", "\\", "*">>,
      <<"/", "*", "a", "*">>, <<"/", "?", "/", "?">> }

\* "/api/test", "/api/test/123", "/api/v1/user", ...
Paths ==
    UNION {[1..n -> PathChars] : n \in 1..MaxPatternLen} \cup
    { <<"/", "a", "/", "b">>, <<"/", "a", "/", "b", "/", "c">>,
      <<"/", "a", "/", "c", "/", "b">>, <<"/", "a", "/", "a">>, <<"/", "a", "/">>,
      <<"/", "[", "a">>, <<"/", "a", "/", "*", "[">>, <<"/", "*">>,
      <<"/", "b", "a", "b">>, <<"/", "a", "/", "b", "a">> }

\* a Limiter whose only rule has the path pattern
PathLimiter(pattern) ==
    [NewFromConfig(TRUE, FALSE, {}, 1, 1) EXCEPT
       !.rules = << ToRule("p", pattern, "", LimitByIP, AlgorithmFixedWindow,
                           MaxLimit, MaxWindow, 0, [num |-> 0, den |-> 1], FALSE, 1) >>]

InitPath ==
    /\ store = EmptyStore
    /\ now = 0
    /\ cfg \in {PathLimiter(pattern) : pattern \in Patterns}
    /\ last = NoCall
    /\ hist = [viol |-> EmptyMap, ban |-> EmptyMap, calls |-> 0, faults |-> 0]

\* Check of one request for a path
PathCheck ==
    /\ last = NoCall
    /\ \E path \in Paths :
          CheckReturns([path |-> path, method |-> "GET", ip |-> "i1", userID |-> ""],
                       Check(cfg, store, [path |-> path, method |-> "GET",
                                          ip |-> "i1", userID |-> ""], now))

NextPath == PathCheck

SpecPath == InitPath /\ [][NextPath]_vars

---------------------------------------------------------------------------
(* C22 *)

\* the pattern of the rule
Pattern == cfg.rules[1].Path

\* the latest call found that the rule's pattern matches the request's path
PathMatched == last.evaluated # <<>>

\* the `/` of a path or pattern
Slashes(p) == Cardinality({k \in 1..Len(p) : p[k] = "/"})

\* a pattern of plain characters, `*` and `?`
PlainPattern(p) == \A k \in 1..Len(p) : p[k] \notin {"[", "\\"}

\* what the claim says of paths, but for its last part: a pattern matches
\* itself; a `*` stays within one path segment, so a matching path has as
\* many `/` as the pattern ("/a/*" matches "/a/b" and not "/a/b/c",
\* "/a/*/b" matches "/a/c/b"); Check never fails
PathMatchingBasics ==
    last.op = "check" =>
        /\ ~last.err
        /\ PathMatched = matchPath(Pattern, last.req.path)
        /\ Pattern = last.req.path => PathMatched
        /\ (PathMatched /\ PlainPattern(Pattern))
              => Slashes(last.req.path) = Slashes(Pattern)
        /\ Pattern = <<"/", "a", "/", "*">>
              => (PathMatched <=> /\ Len(last.req.path) >= 3
                                  /\ SubSeq(last.req.path, 1, 3) = <<"/", "a", "/">>
                                  /\ Slashes(last.req.path) = 2)
        /\ (Pattern = <<"/", "a", "/", "*", "/", "b">>
              /\ last.req.path = <<"/", "a", "/", "c", "/", "b">>) => PathMatched

\* C22 as stated: ... and a malformed pattern never matches any path
C22_PathMatching ==
    /\ PathMatchingBasics
    /\ (last.op = "check" /\ Malformed(Pattern)) => ~PathMatched

\* C22 amended: ... and a malformed pattern matches no path but the one
\* that is equal to it
C22_PathMatchingButItself ==
    /\ PathMatchingBasics
    /\ (last.op = "check" /\ Malformed(Pattern) /\ Pattern # last.req.path)
          => ~PathMatched

\* a malformed pattern that begins like the path was held against it, and
\* Check went on without it
C22_Witness ==
    /\ last.op = "check"
    /\ ~last.err
    /\ Pattern = <<"/", "a", "/", "*", "[">>
    /\ last.req.path = <<"/", "a", "/", "b">>
    /\ ~PathMatched
    /\ last.res.Allowed

---------------------------------------------------------------------------
(* C28 *)

\* the dimensions and identifiers the requests of the model carry
BanKeys == { blacklistKey(d, id) : d \in {"ip", "user"}, id \in {"i1", "iw", "ibw", "u1", "uw", "ubw"} }

\* C28: every ban entry in the store has a deadline, at most ban_duration
\* away, also after a call of Check during which a store operation of
\* checkAndBan failed
C28_BanEntriesExpire ==
    \A k \in BanKeys :
        Exists(store, k) =>
            /\ k \in DOMAIN store.exp
            /\ store.exp[k] - now <= cfg.banDuration

---------------------------------------------------------------------------
(* The engine with a violation threshold high enough for a counter to be
   incremented without being created or promoted. *)

WatchThreshold == 3

\* the limiters of this specification: with and without the global rule
WatchLimiters ==
    { NewFromConfig(TRUE, g, {"ip", "user"}, th, 1) :
        g \in BOOLEAN, th \in 2..WatchThreshold }

InitWatch ==
    /\ store = EmptyStore
    /\ now = 0
    /\ cfg \in WatchLimiters
    /\ last = NoCall
    /\ hist = [viol |-> EmptyMap, ban |-> EmptyMap, calls |-> 0, faults |-> 0]

NextWatch == CheckCall \/ Advance

SpecWatch == InitWatch /\ [][NextWatch]_vars

---------------------------------------------------------------------------
(* C29 *)

\* the step keeps the violation window of identifier id of dimension d
WindowKept(d, id) ==
    LET vk == violationKey(d, id)
        bk == blacklistKey(d, id)
    IN  /\ Exists(store', vk)
              => /\ vk \in DOMAIN store'.exp
                 /\ store'.exp[vk] > now'
                 /\ Get(store', vk) < cfg.violationThreshold
                 /\ IF Exists(store, vk)
                    THEN /\ store'.exp[vk] = store.exp[vk]
                         /\ Get(store', vk) \in {Get(store, vk), Get(store, vk) + 1}
                    ELSE /\ RuleDenyStep
                         /\ Get(store', vk) = 1
                         /\ store'.exp[vk] = now + cfg.violationWindow
        /\ (Exists(store, vk) /\ ~Exists(store', vk))
              => \/ /\ now' >= store.exp[vk]
                    /\ Exists(store', bk) => Exists(store, bk)
                 \/ /\ RuleDenyStep
                    /\ Get(store, vk) + 1 >= cfg.violationThreshold
                    /\ Exists(store', bk)
        /\ (~Exists(store, bk) /\ Exists(store', bk))
              => /\ RuleDenyStep
                 /\ Get(store, vk) + 1 >= cfg.violationThreshold

C29_WitnessNewWindow ==
    /\ last.op = "check"
    /\ ~last.err
    /\ last.evaluated # <<>>
    /\ ~last.res.Allowed
    /\ cfg.violationThreshold = 2
    /\ now >= cfg.violationWindow
    /\ Get(store, violationKey("ip", last.req.ip)) = 1
    /\ store.exp[violationKey("ip", last.req.ip)] = now + cfg.violationWindow
    /\ ~Exists(store, blacklistKey("ip", last.req.ip))

---------------------------------------------------------------------------
(* Concurrent calls of Check on one Limiter and one store.  A call reads
   the access lists, evaluates the rules and, when a rule denied, records
   the violation: recordViolation runs checkAndBan per dimension, and every
   store operation of checkAndBan is a step of its own, so the operations
   of different calls interleave.  The access lists and the rules are each
   taken in one step.  `last` holds per caller its position, its request,
   the count its Incr returned and the dimensions it has still to record;
   `hist` counts the calls made. *)

MaxCallers == 2
MaxBanCalls == 4

Callers == 1..MaxCallers

\* the requests of the callers: one IP, anonymous or signed in
BanRequests ==
    [path : {PathA}, method : {"GET"}, ip : {"i1"}, userID : {"", "u1"}]

\* Check from the rules to the call of recordViolation: the verdict of the
\* rules, the violation not yet recorded
RulesOnly(l, s, req, t) ==
    AfterACL([l EXCEPT !.autoBanEnabled = FALSE], s, "none", req, t)

\* the dimensions recordViolation runs checkAndBan for, in its order
RecordingOrder(l, req) ==
    (IF "ip" \in Fed(l, req) THEN <<"ip">> ELSE <<>>) \o
    (IF "user" \in Fed(l, req) THEN <<"user">> ELSE <<>>)

Idle == [pc |-> "idle", req |-> NoCall, val |-> 0, todo |-> <<>>]

\* the caller after the checkAndBan it was in has returned
NextDimension(c) ==
    IF Len(c.todo) > 1
    THEN [c EXCEPT !.pc = "incr", !.val = 0, !.todo = Tail(c.todo)]
    ELSE Idle

\* the caller after the violation counter has its count val (and, when it
\* is 1, its deadline)
AfterCount(l, c) ==
    IF c.val >= l.violationThreshold THEN [c EXCEPT !.pc = "set"]
    ELSE NextDimension(c)

InitBanC ==
    /\ store = EmptyStore
    /\ now = 0
    /\ cfg \in {NewFromConfig(TRUE, FALSE, {"ip", "user"}, th, 1) : th \in 1..MaxThreshold}
    /\ last = [p \in Callers |-> Idle]
    /\ hist = 0

\* caller p calls Check: the access lists
BanCACL(p) ==
    /\ last[p].pc = "idle"
    /\ hist < MaxBanCalls
    /\ \E req \in BanRequests :
          last' = [last EXCEPT ![p] =
                     IF ACL(cfg, store, req.ip, req.userID) = "none"
                     THEN [Idle EXCEPT !.pc = "rules", !.req = req]
                     ELSE Idle]
    /\ hist' = hist + 1
    /\ UNCHANGED <<store, now, cfg>>

\* the rules; a deny goes on to recordViolation
BanCRules(p) ==
    /\ last[p].pc = "rules"
    /\ \A k \in DOMAIN store.kv : store.kv[k] < MaxCount
    /\ store' = Settle(RulesOnly(cfg, store, last[p].req, now).store)
    /\ last' = [last EXCEPT ![p] =
                  IF /\ ~RulesOnly(cfg, store, last[p].req, now).res.Allowed
                     /\ RecordingOrder(cfg, last[p].req) # <<>>
                  THEN [@ EXCEPT !.pc = "incr",
                                 !.todo = RecordingOrder(cfg, last[p].req)]
                  ELSE Idle]
    /\ UNCHANGED <<now, cfg, hist>>

\* the key of the checkAndBan caller p is in
CallerViolationKey(p) ==
    violationKey(Head(last[p].todo), IdOf(last[p].req, Head(last[p].todo)))

CallerBlacklistKey(p) ==
    blacklistKey(Head(last[p].todo), IdOf(last[p].req, Head(last[p].todo)))

\* count, err := l.store.Incr(violationKey)
BanCIncr(p) ==
    /\ last[p].pc = "incr"
    /\ store' = Settle(Incr(store, CallerViolationKey(p)).store)
    /\ last' = [last EXCEPT ![p] =
                  IF Incr(store, CallerViolationKey(p)).val = 1
                  THEN [@ EXCEPT !.pc = "expire", !.val = 1]
                  ELSE AfterCount(cfg, [@ EXCEPT !.val = Incr(store, CallerViolationKey(p)).val])]
    /\ UNCHANGED <<now, cfg, hist>>

\* l.store.Expire(violationKey, l.violationWindow), the count being 1
BanCExpire(p) ==
    /\ last[p].pc = "expire"
    /\ store' = Settle(Expire(store, CallerViolationKey(p), cfg.violationWindow, now))
    /\ last' = [last EXCEPT ![p] = AfterCount(cfg, @)]
    /\ UNCHANGED <<now, cfg, hist>>

\* l.store.Set(blacklistKey, 1)
BanCSet(p) ==
    /\ last[p].pc = "set"
    /\ store' = Settle(Set(store, CallerBlacklistKey(p), 1))
    /\ last' = [last EXCEPT ![p].pc = "ban_expire"]
    /\ UNCHANGED <<now, cfg, hist>>

\* l.store.Expire(blacklistKey, l.banDuration)
BanCBanExpire(p) ==
    /\ last[p].pc = "ban_expire"
    /\ store' = Settle(Expire(store, CallerBlacklistKey(p), cfg.banDuration, now))
    /\ last' = [last EXCEPT ![p].pc = "del"]
    /\ UNCHANGED <<now, cfg, hist>>

\* l.store.Del(violationKey)
BanCDel(p) ==
    /\ last[p].pc = "del"
    /\ store' = Settle(Del(store, CallerViolationKey(p)))
    /\ last' = [last EXCEPT ![p] = NextDimension(@)]
    /\ UNCHANGED <<now, cfg, hist>>

BanCTick ==
    /\ now < MaxClock
    /\ now' = now + 1
    /\ store' = Purge(store, now + 1)
    /\ UNCHANGED <<cfg, last, hist>>

NextBanC ==
    \/ \E p \in Callers : BanCACL(p)
    \/ \E p \in Callers : BanCRules(p)
    \/ \E p \in Callers : BanCIncr(p)
    \/ \E p \in Callers : BanCExpire(p)
    \/ \E p \in Callers : BanCSet(p)
    \/ \E p \in Callers : BanCBanExpire(p)
    \/ \E p \in Callers : BanCDel(p)
    \/ BanCTick

SpecBanC == InitBanC /\ [][NextBanC]_vars

---------------------------------------------------------------------------
(* C30 *)

\* a caller is inside recordViolation with identifier id of dimension d
\* still to record
Recording(d, id) ==
    \E p \in Callers :
        /\ last[p].pc \in {"incr", "expire", "set", "ban_expire", "del"}
        /\ \E i \in 1..Len(last[p].todo) : last[p].todo[i] = d
        /\ IdOf(last[p].req, d) = id

\* C30: when no caller is recording a violation of an identifier, the
\* store does not hold both a violation counter and a ban entry of it,
\* whatever the interleaving of the concurrent calls of Check
C30_WatchedOrBanned ==
    \A d \in {"ip", "user"} : \A id \in {"i1", "u1"} :
        ~Recording(d, id)
           => ~(Exists(store, violationKey(d, id)) /\ Exists(store, blacklistKey(d, id)))

---------------------------------------------------------------------------
(* Loading a policy: LoadConfig validates the configuration it has parsed
   and NewFromConfig turns it into the Limiter's rules.  Strings are
   sequences of tokens (a sign, a number, a unit, a slash); `cfg` is the
   configuration, `last` what the latest step returned. *)

\* time.ParseDuration on the strings of the model: an optional sign, then
\* "0" or one number with its unit; ticks
parseDuration(s) ==
    LET signed == s # <<>> /\ s[1] \in {"-", "+"}
        body   == IF signed THEN Tail(s) ELSE s
        sign   == IF signed /\ s[1] = "-" THEN -1 ELSE 1
        value(n) == CASE n = "0" -> 0 [] n = "1" -> 1 [] n = "2" -> 2 [] OTHER -> -1
        unit(u)  == CASE u = "s" -> TicksPerSec [] u = "m" -> 60 * TicksPerSec [] OTHER -> 0
    IN  IF body = <<"0">> THEN [err |-> FALSE, d |-> 0]
        ELSE IF Len(body) = 2 /\ value(body[1]) >= 0 /\ unit(body[2]) > 0
        THEN [err |-> FALSE, d |-> sign * value(body[1]) * unit(body[2])]
        ELSE [err |-> TRUE, d |-> 0]

\* strings.Split(s, "/")
RECURSIVE Split(_)
Split(s) ==
    IF \A i \in 1..Len(s) : s[i] # "/" THEN <<s>>
    ELSE LET i == CHOOSE j \in 1..Len(s) :
                     s[j] = "/" /\ \A k \in 1..(j - 1) : s[k] # "/"
         IN  <<SubSeq(s, 1, i - 1)>> \o Split(SubSeq(s, i + 1, Len(s)))

\* parseRate: "<count>/<unit>" as tokens per second
parseRate(s) ==
    LET parts == Split(s)
        count == IF Len(parts) = 2 THEN parts[1] ELSE <<>>
        neg   == count # <<>> /\ count[1] = "-"
        digit == IF neg THEN Tail(count) ELSE count
        value == CASE digit = <<"0">> -> 0 [] digit = <<"1">> -> 1
                   [] digit = <<"2">> -> 2 [] OTHER -> -1
        secs  == IF Len(parts) # 2 THEN 0
                 ELSE CASE parts[2] \in {<<"s">>, <<"sec">>, <<"second">>} -> 1
                        [] parts[2] \in {<<"m">>, <<"min">>, <<"minute">>} -> 60
                        [] parts[2] \in {<<"h">>, <<"hour">>} -> 3600
                        [] OTHER -> 0
    IN  IF Len(parts) # 2 \/ value < 0 \/ secs = 0
        THEN [err |-> TRUE, rate |-> [num |-> 0, den |-> 1]]
        ELSE [err |-> FALSE,
              rate |-> [num |-> (IF neg THEN -1 ELSE 1) * value, den |-> secs]]

isValidAlgorithm(algo) ==
    algo \in {AlgorithmFixedWindow, AlgorithmSlidingWindow, AlgorithmTokenBucket}

isValidLimitBy(by) ==
    by \in {LimitByIP, LimitByUser, LimitByPath, LimitByGlobal, "custom"}

NoGlobal == [Algorithm |-> "nil"]

\* the algorithm validateConfig leaves in config.Default
DefaultAlgorithm(config) ==
    IF config.Default.Algorithm = "" THEN AlgorithmFixedWindow
    ELSE config.Default.Algorithm

\* validateConfig on the global section
GlobalValid(g) ==
    /\ g.Limit > 0
    /\ ~parseDuration(g.Window).err
    /\ (g.Algorithm = "" \/ isValidAlgorithm(g.Algorithm))

\* validateConfig on one rule
RuleValid(rc, defaultAlgo) ==
    LET algo == IF rc.Algorithm = "" THEN defaultAlgo ELSE rc.Algorithm
    IN  /\ rc.Path # <<>>
        /\ rc.By # ""
        /\ isValidLimitBy(rc.By)
        /\ isValidAlgorithm(algo)
        /\ IF algo = AlgorithmTokenBucket
           THEN rc.Capacity > 0 /\ rc.Rate # <<>> /\ ~parseRate(rc.Rate).err
           ELSE rc.Limit > 0 /\ ~parseDuration(rc.Window).err

\* validateConfig: the configuration is accepted
validateConfig(config) ==
    /\ (config.Default.Algorithm = "" \/ isValidAlgorithm(config.Default.Algorithm))
    /\ (config.Global # NoGlobal => GlobalValid(config.Global))
    /\ \A i \in 1..Len(config.Rules) :
          RuleValid(config.Rules[i], DefaultAlgorithm(config))

BadRule == [Name |-> "error"]

\* NewFromConfig on the global section
GlobalToRule(g, defaultAlgo) ==
    IF parseDuration(g.Window).err THEN BadRule
    ELSE [Name |-> "global", Path |-> <<"*">>, Method |-> "", By |-> LimitByGlobal,
          Algorithm |-> IF g.Algorithm = "" THEN defaultAlgo ELSE g.Algorithm,
          Limit |-> g.Limit, Window |-> parseDuration(g.Window).d,
          Capacity |-> 0, Rate |-> [num |-> 0, den |-> 1],
          RecordViolation |-> FALSE, ViolationWeight |-> 0]

\* RuleConfig.ToRule
RuleConfigToRule(rc, defaultAlgo) ==
    LET algo == IF rc.Algorithm # "" THEN rc.Algorithm ELSE defaultAlgo
        base == [Name |-> rc.Name, Path |-> rc.Path, Method |-> ToUpper(rc.Method),
                 By |-> rc.By, Algorithm |-> algo, Limit |-> rc.Limit,
                 Window |-> 0, Capacity |-> 0, Rate |-> [num |-> 0, den |-> 1],
                 RecordViolation |-> FALSE, ViolationWeight |-> 0]
    IN  IF algo = AlgorithmTokenBucket
        THEN IF parseRate(rc.Rate).err THEN BadRule
             ELSE [base EXCEPT !.Capacity = rc.Capacity, !.Rate = parseRate(rc.Rate).rate]
        ELSE IF parseDuration(rc.Window).err THEN BadRule
             ELSE [base EXCEPT !.Window = parseDuration(rc.Window).d]

\* the rules NewFromConfig gives the Limiter: the global rule, if any, and
\* the listed rules
LoadedRules(config) ==
    (IF config.Global = NoGlobal THEN {}
     ELSE {GlobalToRule(config.Global, config.Default.Algorithm)}) \cup
    { RuleConfigToRule(config.Rules[i], config.Default.Algorithm) :
        i \in 1..Len(config.Rules) }

DurationStrings == {<<>>, <<"0">>, <<"0", "s">>, <<"1", "s">>, <<"-", "1", "s">>, <<"1">>}
RateStrings == {<<>>, <<"1", "/", "s">>, <<"0", "/", "s">>, <<"-", "1", "/", "s">>, <<"2", "/", "m">>, <<"1">>, <<"1", "/", "d">>}
MaxConfigLimit == 1

Globals ==
    {NoGlobal} \cup
    [Limit : 0..MaxConfigLimit, Window : {<<"1", "s">>, <<"0", "s">>, <<>>},
     Algorithm : {"", AlgorithmTokenBucket, "leaky"}]

RuleConfigs ==
    [Name : {"r"}, Path : {PathA}, Method : {"get"}, By : {LimitByIP},
     Algorithm : {"", AlgorithmSlidingWindow, AlgorithmTokenBucket, "leaky"},
     Limit : 0..MaxConfigLimit, Window : DurationStrings,
     Capacity : 0..MaxConfigLimit, Rate : RateStrings]

Configs ==
    [Default : [Algorithm : {"", AlgorithmTokenBucket}], Global : Globals,
     Rules : {<<rc>> : rc \in RuleConfigs}]

InitLoad ==
    /\ store = EmptyStore
    /\ now = 0
    /\ cfg \in Configs
    /\ last = NoCall
    /\ hist = 0

\* LoadConfig: the parsed configuration is validated (the default algorithm
\* is filled in) and returned, or rejected
LoadConfig ==
    /\ last = NoCall
    /\ last' = [op |-> "load", err |-> ~validateConfig(cfg)]
    /\ cfg' = IF validateConfig(cfg)
              THEN [cfg EXCEPT !.Default.Algorithm = DefaultAlgorithm(cfg)]
              ELSE cfg
    /\ UNCHANGED <<store, now, hist>>

\* NewFromConfig on a configuration LoadConfig returned
NewLimiter ==
    /\ last.op = "load"
    /\ ~last.err
    /\ last' = [op |-> "new", err |-> BadRule \in LoadedRules(cfg),
                rules |-> LoadedRules(cfg)]
    /\ UNCHANGED <<store, now, cfg, hist>>

NextLoad == LoadConfig \/ NewLimiter

SpecLoad == InitLoad /\ [][NextLoad]_vars

---------------------------------------------------------------------------
(* C31 *)

\* the parameters of the rule's algorithm are positive, the others zero
WellFormed(rule) ==
    IF rule.Algorithm = AlgorithmTokenBucket
    THEN /\ rule.Capacity > 0 /\ rule.Rate.num > 0
         /\ rule.Limit = 0 /\ rule.Window = 0
    ELSE /\ rule.Limit > 0 /\ rule.Window > 0
         /\ rule.Capacity = 0 /\ rule.Rate.num = 0

\* C31: every rule of a Limiter built from a loaded policy, the global rule
\* included, has the parameters of its algorithm strictly positive and the
\* other parameters zero
C31_RulesWellFormed ==
    (last.op = "new" /\ ~last.err) => \A rule \in last.rules : WellFormed(rule)

---------------------------------------------------------------------------
(* FixedWindowLimiter.Allow over a store whose operations can fail: during
   one call of a behaviour the f-th store operation returns an error, Allow
   returns it, and what the operations before it wrote stays. *)

\* a call of Allow whose f-th store operation (Incr, Expire, TTL) fails
FaultyFWCall ==
    /\ Len(hist) < MaxCalls
    /\ \A i \in 1..Len(hist) : "failed" \notin DOMAIN hist[i]
    /\ \E f \in 1..FixedWindowAllow(Arm(store, 0), FWKey, cfg.limit, cfg.window, now).store.ops :
          /\ store' = Settle(FixedWindowAllow(Arm(store, f), FWKey, cfg.limit, cfg.window, now).store)
          /\ last' = [op |-> "fixed", ctx |-> NoCall, failedAt |-> f]
          /\ hist' = Append(hist, [t |-> now, allowed |-> FALSE,
                                   fresh |-> ~Exists(store, FWKey), failed |-> TRUE])
    /\ UNCHANGED <<now, cfg>>

NextFWFault == FWCall \/ FaultyFWCall \/ Tick

SpecFWFault == InitFW /\ [][NextFWFault]_vars

---------------------------------------------------------------------------
(* C32 *)

\* C32: after any sequence of calls of Allow, also with a call whose Expire
\* failed, the counter key, when it exists, has a deadline at most `window`
\* away
C32_CounterHasBoundary ==
    Exists(store, FWKey)
       => /\ FWKey \in DOMAIN store.exp
          /\ store.exp[FWKey] - now <= cfg.window

---------------------------------------------------------------------------
(* C33 *)

\* C33: every Context a call of FixedWindowLimiter.Allow has returned has
\* RetryAfter >= 0, also when the TTL it read was negative
C33_RetryAfterNotNegative ==
    \A p \in Procs : last[p].pc = "done" => last[p].ctx.RetryAfter >= 0

---------------------------------------------------------------------------
(* C34 *)

\* the calls admitted at the ticks lo..hi
AdmittedWithin(lo, hi) ==
    Cardinality({i \in 1..Len(hist) : hist[i].allowed /\ lo <= hist[i].t /\ hist[i].t <= hi})

\* the calls admitted in the interval of length `window` that ends with
\* tick x: the ticks after x - window, up to x
AdmittedInInterval(x) == AdmittedWithin(x - cfg.window + 1, x)

\* the calls admitted in the window call j opened
AdmittedInWindow(j) ==
    Cardinality({i \in j..Len(hist) : hist[i].allowed /\ WindowOpener(i) = j})

\* calls j and k opened consecutive windows
ConsecutiveOpeners(j, k) ==
    /\ j < k
    /\ hist[j].fresh /\ hist[k].fresh
    /\ \A m \in (j + 1)..(k - 1) : ~hist[m].fresh

\* two windows, the second opened the moment the first was over, have each
\* admitted `limit` calls, as close to the boundary as the windows allow:
\* the first window's after its opener at its last tick, the second's at
\* its first
BackToBack(j, k) ==
    /\ ConsecutiveOpeners(j, k)
    /\ hist[k].t = hist[j].t + cfg.window
    /\ AdmittedInWindow(j) = cfg.limit
    /\ AdmittedInWindow(k) = cfg.limit
    /\ \A i \in (j + 1)..(k - 1) : hist[i].t = hist[k].t - 1
    /\ \A i \in k..Len(hist) : hist[i].t = hist[k].t

---------------------------------------------------------------------------
(* TokenBucketLimiter.Allow called by several service instances on one key:
   each takes `now` from its own clock, which may lag the store's by whole
   seconds. *)

MaxSkew == 1

\* TokenBucketLimiter.Allow on an instance whose clock reads `clock` when
\* the store's reads t
TokenBucketAllowAt(s, key, capacity, rate, clock, t) ==
    LET sec == Unix(clock)
        r   == TokenBucketScript(s, key, capacity, rate, sec, 1, t)
        allowed   == r.reply[1] = 1
        remaining == r.reply[2]
    IN  [store |-> r.store,
         ctx   |-> [Allowed    |-> allowed,
                    Limit      |-> r.reply[3],
                    Remaining  |-> remaining,
                    Reset      |-> sec + (capacity * rate.den) \div rate.num,
                    RetryAfter |-> TokenRetryAfter(allowed, remaining, rate)]]

\* a call of Allow by an instance whose clock is `skew` seconds behind
TBSkewCall ==
    /\ Len(hist) < MaxCalls
    /\ \E skew \in 0..MaxSkew :
          /\ now - skew * TicksPerSec >= 0
          /\ LET r == TokenBucketAllowAt(store, TBKey, cfg.capacity, cfg.rate,
                                         now - skew * TicksPerSec, now)
             IN  /\ store' = Settle(r.store)
                 /\ last' = [op |-> "bucket", ctx |-> r.ctx]
                 /\ hist' = Append(hist, [t |-> now, sec |-> Unix(now - skew * TicksPerSec),
                                          allowed |-> r.ctx.Allowed])
    /\ UNCHANGED <<now, cfg>>

NextTBSkew == TBSkewCall \/ Tick

SpecTBSkew == InitTB /\ [][NextTBSkew]_vars

---------------------------------------------------------------------------
(* C35 *)

\* C35: the last_time stored for a bucket never decreases from one call to
\* the next, whatever `now` the callers pass
C35_LastTimeMonotonic ==
    [][ (TBKey \in DOMAIN store.h /\ TBKey \in DOMAIN store'.h)
          => store'.h[TBKey].last_time >= store.h[TBKey].last_time ]_vars

---------------------------------------------------------------------------
(* C36 *)

\* C36: the members of the log with a score in (now - window, now] are as
\* many as the calls admitted with a timestamp in that interval, also when
\* two calls carry the same timestamp
C36_OneMemberPerAdmission ==
    Cardinality(ScoresWithin(store, now - cfg.window, now))
        = Cardinality(AdmittedIn(now, cfg.window))

---------------------------------------------------------------------------
(* C37 *)

\* what the store holds: its keys with their values and deadlines
Contents(s) == [kv |-> s.kv, z |-> s.z, h |-> s.h, exp |-> s.exp]

\* no statically whitelisted user or IP has a violation counter or a ban
\* entry in store s
WhitelistedUnwatched(l, s) ==
    /\ \A u \in l.whitelistUsers :
          /\ ~Exists(s, violationKey("user", u))
          /\ ~Exists(s, blacklistKey("user", u))
    /\ \A i \in l.whitelistIPs :
          /\ ~Exists(s, violationKey("ip", i))
          /\ ~Exists(s, blacklistKey("ip", i))

\* C37: a request admitted by the user whitelist or by the IP whitelist
\* leaves the store as it was, and after every call no statically
\* whitelisted user or IP has a violation counter or a ban entry
C37_WhitelistWritesNothing ==
    [][ /\ (CheckStep /\ last'.via \in ACLAllowStages)
              => Contents(store') = Contents(store)
        /\ WhitelistedUnwatched(cfg, store') ]_vars

\* a user under watch came from a whitelisted IP and was admitted by the
\* IP whitelist; the rules' state and the user's counter are in the store
C37_Witness ==
    /\ last.op = "check"
    /\ last.via = "ip_whitelist"
    /\ last.res.Allowed
    /\ last.req.userID = "u1"
    /\ Exists(store, violationKey("user", "u1"))
    /\ store.h # EmptyMap

---------------------------------------------------------------------------
(* C38 *)

RuleNamed(l, name) == CHOOSE rule \in AllRules(l) : rule.Name = name

\* the step has left in the store what the rule's limiter wrote when it
\* admitted req: one more in the counter, the request in the log, or the
\* bucket one token down
QuotaConsumed(rule, req) ==
    LET k == buildKey(rule, req.path, req.ip, req.userID)
    IN  CASE rule.Algorithm = AlgorithmFixedWindow ->
               Get(store', k) = Get(store, k) + 1
          [] rule.Algorithm = AlgorithmSlidingWindow ->
               ToString(now) \in DOMAIN ZSetOf(store', k)
          [] rule.Algorithm = AlgorithmTokenBucket ->
               /\ k \in DOMAIN store'.h
               /\ store'.h[k] = TokenBucketScript(store, k, rule.Capacity, rule.Rate,
                                                  Unix(now), 1, now).store.h[k]

\* C38: whatever a call of Check returns - an allow, the deny of a later
\* rule, or the error of a later store operation - the quota of every rule
\* that admitted the request on the way stays consumed
C38_NoRefund ==
    [][ CheckStep
          => \A i \in 1..Len(last'.evaluated) :
                (last'.evaluated[i].res # NilResult /\ last'.evaluated[i].res.Allowed)
                   => QuotaConsumed(RuleNamed(cfg, last'.evaluated[i].name), last'.req)
      ]_vars

\* the global rule and the first listed rule admitted the request and the
\* second listed rule denied it
C38_Witness ==
    /\ last.op = "check"
    /\ ~last.err
    /\ ~last.res.Allowed
    /\ Len(last.evaluated) = 3
    /\ last.evaluated[1].res.Allowed
    /\ last.evaluated[2].res.Allowed

\* a rule admitted the request and a later store operation failed
C38_WitnessError ==
    /\ last.op = "check"
    /\ last.err
    /\ last.evaluated # <<>>
    /\ last.evaluated[1].res # NilResult
    /\ last.evaluated[1].res.Allowed

---------------------------------------------------------------------------
(* C39: callers with different identifiers under rules by IP and by USER,  *)
(* without a global rule.                                                   *)

\* the Limiters without a global rule, over the auto-ban dimensions and the
\* thresholds
IsoLimiters ==
    { NewFromConfig(TRUE, FALSE, c[1], c[2], 1) :
        c \in { x \in (SUBSET {"ip", "user"}) \X (1..MaxThreshold) :
                  x[1] = {} => x[2] = 1 } }

\* two addresses and two users, none of them on a list; POST /a matches the
\* rule by IP alone, GET /b the rule by USER alone (which an anonymous
\* caller meets under its address)
IsoRequests ==
    [path : {PathA}, method : {"POST"},
     ip : {"i1", "i2"}, userID : {"u1", "u2"}] \cup
    [path : {PathB}, method : {"GET"},
     ip : {"i1", "i2"}, userID : {"", "u1", "u2"}]

InitIso ==
    /\ store = EmptyStore
    /\ now = 0
    /\ cfg \in IsoLimiters
    /\ last = NoCall
    /\ hist = [viol |-> EmptyMap, ban |-> EmptyMap, calls |-> 0, faults |-> 0]

IsoCall ==
    /\ CounterRoom
    /\ \E req \in IsoRequests : CheckReturns(req, Check(cfg, store, req, now))

NextIso == IsoCall \/ Advance

SpecIso == InitIso /\ [][NextIso]_vars

\* the keys a request's verdict is read from and written to: the keys of its
\* rules, and the violation counter and ban entry of its address and user
OwnKeys(l, req) ==
    { buildKey(rule, req.path, req.ip, req.userID) : rule \in AllRules(l) } \cup
    { violationKey("ip", req.ip), blacklistKey("ip", req.ip) } \cup
    (IF req.userID = "" THEN {}
     ELSE { violationKey("user", req.userID), blacklistKey("user", req.userID) })

\* the step left caller a where it was: a's keys hold what they held, and
\* Check would return to a what it would have returned, leaving a's keys
\* as it would have left them
SameOutcome(keys, before, after) ==
    /\ after.res = before.res
    /\ after.err = before.err
    /\ \A k \in keys : KeyState(after.store, k) = KeyState(before.store, k)

Untouched(a) ==
    /\ \A k \in OwnKeys(cfg, a) : KeyState(store', k) = KeyState(store, k)
    /\ SameOutcome(OwnKeys(cfg, a), Check(cfg, store, a, now), Check(cfg, store', a, now))

\* a and b are requests under one and the same rule, limited by IP or by
\* USER, with different identifiers in the rule's dimension
OtherIdentifier(a, b) ==
    /\ Len(Candidates(cfg, a)) = 1
    /\ Candidates(cfg, b) = Candidates(cfg, a)
    /\ LET rule == Candidates(cfg, a)[1]
       IN  \/ rule.By = LimitByIP /\ a.ip # b.ip
           \/ /\ rule.By = LimitByUser
              /\ a.userID # "" /\ b.userID # ""
              /\ a.userID # b.userID

\* b carries neither the address nor the user of a
SharesNothing(a, b) ==
    /\ a.ip # b.ip
    /\ a.userID = "" \/ a.userID # b.userID

\* C39 (as stated): a request of an identifier B leaves every other
\* identifier A of the rule untouched: A's counter, violation counter and
\* ban entry, and the verdicts A gets
C39_IdentifiersIsolated ==
    [][ CheckStep
          => \A a \in IsoRequests : OtherIdentifier(a, last'.req) => Untouched(a)
      ]_vars

\* C39 (amended): a request that carries neither the address nor the user
\* of caller A leaves A untouched, whichever rules the two match
C39_DisjointCallersIsolated ==
    [][ CheckStep
          => \A a \in IsoRequests : SharesNothing(a, last'.req) => Untouched(a)
      ]_vars

\* a caller was denied by a rule and banned by it, while another address
\* with another user has a token left in its own bucket
C39_Witness ==
    /\ last.op = "check"
    /\ last.via = "rule"
    /\ last.req.ip = "i2"
    /\ last.req.userID = "u2"
    /\ Exists(store, blacklistKey("ip", "i2"))
    /\ Exists(store, buildKey(cfg.rules[1], PathA, "i1", "u1"))
    /\ Check(cfg, store, [path |-> PathA, method |-> "POST", ip |-> "i1",
                          userID |-> "u1"], now).res.Allowed

=============================================================================
